---- MODULE Spec2Model ----
(***************************************************************************)
(* Scenario compute engine of the hospital-network API:                    *)
(* api/services.py (ScenarioService) over api/repositories.py              *)
(* (ScenarioRepository).                                                   *)
(*                                                                         *)
(* Numbers.  The code computes in floats; the model computes the same      *)
(* expressions exactly, over fixed-point integers:                         *)
(*   growth_pct, los_delta, alc_target, alc_rate, occupancy_target,        *)
(*   productivity_factor, multiplier     in hundredths (0.12 is 12)        *)
(*   los_base_days, hppd                 in tenths     (5.8 is 58)         *)
(*   unrounded los_effective             in 1/100000   (5.626 is 562600)   *)
(*   displayed los_effective, avg_los    in hundredths (round(x, 2))       *)
(*   census_average, nursing_fte         in tenths     (round(x, 1))       *)
(*   avg_occupancy                       in thousandths (round(x, 3))      *)
(* Python's None is the empty tuple; an Optional number v is <<v>>.         *)
(***************************************************************************)
EXTENDS Integers, Sequences, FiniteSets, TLC

VARIABLES
    db,          \* the reference tables the repositories query
    request,     \* the ScenarioRequest the client sends
    callBudget,  \* how many calls of calculate_scenario are made with it
    inv,         \* per call of calculate_scenario: its position and locals
    engine,      \* a direct call of _calculate_site_result: arguments, result
    lookup,      \* a direct call of get_seasonality_multiplier
    api          \* the POST /scenarios/compute endpoint: position, reply

vars == <<db, request, callBudget, inv, engine, lookup, api>>

None == <<>>
Some(v) == <<v>>
Val(o) == o[1]
\* truth value of an Optional[float]: None and 0.0 are false
Truthy(o) == o /= None /\ Val(o) /= 0

NullId == 0   \* NULL in an id column; ids are assigned from 1

-----------------------------------------------------------------------------
(* Bounds of the model *)

MaxSiteList == 2      \* longest request.sites
MaxProgramList == 2   \* longest request.program_ids
MaxCalls == 2         \* calls of calculate_scenario per behaviour
MaxHorizon == 2       \* largest horizon_years drawn
MaxSeasonMonth == 2   \* last month for which seasonality rows are drawn
MaxSaves == 3         \* save requests per behaviour
MaxCoroutines == 2    \* coroutines running a query against the pool

Sites == {1, 2}
Programs == {1, 2}
Pairs == Sites \X Programs

-----------------------------------------------------------------------------
(* Program constants *)

FallbackAdmissions == 100     \* baseline_admissions when no historical row
DaysPerYear == 365
DefaultAnnualHours == 1950
MonthsPerYear == 12
DefaultMultiplier == 100      \* 1.0, when no seasonality row matches
BaselineYear == 2022
DefaultHorizon == 3           \* horizon_years of a request that names none
Ok == 200                     \* the status of a computed response
BadRequest == 400             \* HTTPException(status_code=400)
Unprocessable == 422          \* the request does not parse into ScenarioRequest
ServerError == 500            \* HTTPException(status_code=500)
Months == 1..MonthsPerYear
LosUnit == 10 * 100 * 100     \* tenths * (1 + los_delta) * (1 + alc shift)
LosFloor == 25 * 1000         \* max(0.25, los_effective), in 1/LosUnit
SeasonUnit == 100 * MonthsPerYear  \* total / 12 of multipliers in hundredths

-----------------------------------------------------------------------------
(* Arithmetic of the Python expressions *)

RECURSIVE Pow(_, _)
Pow(b, e) == IF e <= 0 THEN 1 ELSE b * Pow(b, e - 1)

Abs(a) == IF a < 0 THEN -a ELSE a

\* int(a / b): truncation toward zero (b > 0)
TruncDiv(a, b) == IF a >= 0 THEN a \div b ELSE -((-a) \div b)

\* math.ceil(a / b) (b > 0)
CeilDiv(a, b) == -((-a) \div b)

\* round(a / b) to an integer number of units, ties to even (b > 0)
RoundDiv(a, b) ==
    LET q == a \div b
        r == a % b
    IN  IF 2 * r < b THEN q
        ELSE IF 2 * r > b THEN q + 1
        ELSE IF q % 2 = 0 THEN q ELSE q + 1

\* int(a * s / (d * e)) for a >= 0, d > 0, e > 0, without forming a * s
MulDivTrunc(a, s, d, e) ==
    LET m == Abs(s)
        inner == (a \div d) * m + (((a % d) * m) \div d)
    IN  IF s >= 0 THEN inner \div e ELSE -(inner \div e)

Max(a, b) == IF a >= b THEN a ELSE b

RECURSIVE SumSeq(_)
SumSeq(s) == IF s = <<>> THEN 0 ELSE Head(s) + SumSeq(Tail(s))

Range(s) == {s[i] : i \in DOMAIN s}

\* dict.get(key, default)
Get(row, key, default) == IF key \in DOMAIN row THEN row[key] ELSE default

\* next((x for x in rows if x['site_id'] == site_id), None)
FirstOfSite(rows, site_id) ==
    LET hits == SelectSeq(rows, LAMBDA x : x.site_id = site_id)
    IN  IF hits = <<>> THEN None ELSE Head(hits)

\* ORDER BY site_id over a set of rows with distinct site_id
RECURSIVE OrderBySite(_)
OrderBySite(rows) ==
    IF rows = {} THEN <<>>
    ELSE LET first == CHOOSE x \in rows : \A y \in rows : x.site_id <= y.site_id
         IN  <<first>> \o OrderBySite(rows \ {first})

-----------------------------------------------------------------------------
(* Reference tables and ScenarioRepository *)

\* dim_site row of a site (JOIN dim_site ds ON ... = ds.site_id)
dim_site(site_id) ==
    [site_code |-> IF site_id = 1 THEN "S1" ELSE IF site_id = 2 THEN "S2" ELSE "S3",
     site_name |-> IF site_id = 1 THEN "Site 1" ELSE IF site_id = 2 THEN "Site 2" ELSE "Site 3"]

\* LIMIT 1 of a non-empty result set
Limit1(rows) == CHOOSE r \in rows : TRUE

get_site_program_baseline(site_ids, program_id, baseline_year) ==
    OrderBySite({ [site_id |-> c.site_id, program_id |-> c.program_id,
                   baseline_year |-> c.baseline_year,
                   los_base_days |-> c.los_base_days, alc_rate |-> c.alc_rate,
                   site_code |-> dim_site(c.site_id).site_code,
                   site_name |-> dim_site(c.site_id).site_name] :
                  c \in { c \in db.clinical_baseline :
                            /\ c.site_id \in Range(site_ids)
                            /\ c.program_id = program_id
                            /\ c.baseline_year = baseline_year } })

get_site_staffed_beds(site_ids, program_id, schedule_code) ==
    OrderBySite({ [site_id |-> s.site_id, program_id |-> s.program_id,
                   staffed_beds |-> s.staffed_beds,
                   site_code |-> dim_site(s.site_id).site_code,
                   site_name |-> dim_site(s.site_id).site_name] :
                  s \in { s \in db.staffed_beds_schedule :
                            /\ s.site_id \in Range(site_ids)
                            /\ s.program_id = program_id
                            /\ s.schedule_code = schedule_code } })

\* A row of db.ip_stays stands for the stays of one facility, program and
\* admit year: stays = COUNT(*), with the two averages of the group.
get_baseline_admissions(site_ids, program_id, baseline_year) ==
    OrderBySite({ [site_id |-> ip.facility_id,
                   admissions_base |-> ip.stays,
                   los_observed |-> ip.los_days,
                   alc_rate_observed |-> ip.alc_flag] :
                  ip \in { ip \in db.ip_stays :
                            /\ ip.facility_id \in Range(site_ids)
                            /\ ip.program_id = program_id
                            /\ ip.admit_year = baseline_year } })

get_staffing_factor(program_id) ==
    LET results == { [hppd |-> f.hppd,
                      annual_hours_per_fte |-> f.annual_hours_per_fte,
                      productivity_factor |-> f.productivity_factor] :
                     f \in { f \in db.staffing_factors :
                               f.program_id = program_id /\ f.subprogram_id = NullId } }
    IN  IF results /= {} THEN Limit1(results) ELSE None

SeasonRows(site_id, program_id, month) ==
    { r \in db.seasonality_monthly :
        r.site_id = site_id /\ r.program_id = program_id /\ r.month = month }

\* get_seasonality_multiplier trying the global row before the program row
get_seasonality_multiplier_GlobalFirst(site_id, program_id, month) ==
    IF site_id /= NullId /\ program_id /= NullId
          /\ SeasonRows(site_id, program_id, month) /= {}
    THEN Limit1(SeasonRows(site_id, program_id, month)).multiplier
    ELSE IF SeasonRows(NullId, NullId, month) /= {}
    THEN Limit1(SeasonRows(NullId, NullId, month)).multiplier
    ELSE IF program_id /= NullId /\ SeasonRows(NullId, program_id, month) /= {}
    THEN Limit1(SeasonRows(NullId, program_id, month)).multiplier
    ELSE DefaultMultiplier

get_seasonality_multiplier(site_id, program_id, month) ==
    IF site_id /= NullId /\ program_id /= NullId
          /\ SeasonRows(site_id, program_id, month) /= {}
    THEN Limit1(SeasonRows(site_id, program_id, month)).multiplier
    ELSE IF program_id /= NullId /\ SeasonRows(NullId, program_id, month) /= {}
    THEN Limit1(SeasonRows(NullId, program_id, month)).multiplier
    ELSE IF SeasonRows(NullId, NullId, month) /= {}
    THEN Limit1(SeasonRows(NullId, NullId, month)).multiplier
    ELSE DefaultMultiplier

-----------------------------------------------------------------------------
(* ScenarioService: the projection of one site and one program *)

\* total / 12, kept as the total: a factor in units of 1/SeasonUnit
RECURSIVE SeasonTotal(_, _, _)
SeasonTotal(site_id, program_id, month) ==
    IF month > MonthsPerYear THEN 0
    ELSE get_seasonality_multiplier(site_id, program_id, month)
           + SeasonTotal(site_id, program_id, month + 1)

\* _get_average_seasonality resolving the months without the program
_get_average_seasonality_AnyProgram(site_id, program_id) == SeasonTotal(site_id, NullId, 1)

_get_average_seasonality(site_id, program_id) == SeasonTotal(site_id, program_id, 1)

\* AdmissionsProjected with the growth applied the wrong way: (1 - g) ** y
AdmissionsProjected_Shrinking(baseline_admissions, g, y) ==
    IF y >= 0
    THEN TruncDiv(baseline_admissions * Pow(100 - g, y), Pow(100, y))
    ELSE TruncDiv(baseline_admissions * Pow(100, -y), Pow(100 - g, -y))

\* AdmissionsProjected rounding to the nearest integer instead of truncating
AdmissionsProjected_Rounded(baseline_admissions, g, y) ==
    IF y >= 0
    THEN RoundDiv(baseline_admissions * Pow(100 + g, y), Pow(100, y))
    ELSE RoundDiv(baseline_admissions * Pow(100, -y), Pow(100 + g, -y))

\* int(baseline_admissions * ((1 + g) ** y))
AdmissionsProjected(baseline_admissions, g, y) ==
    IF y >= 0
    THEN TruncDiv(baseline_admissions * Pow(100 + g, y), Pow(100, y))
    ELSE TruncDiv(baseline_admissions * Pow(100, -y), Pow(100 + g, -y))

\* LosEffective without the floor of line 176
LosEffective_NoFloor(los_b, d, alc_t, alc_b) ==
    los_b * (100 + d) * (100 + (alc_t - alc_b))

\* max(0.25, los_b * (1 + d) * (1 + (alc_t - alc_b))), in 1/LosUnit
LosEffective(los_b, d, alc_t, alc_b) ==
    Max(LosFloor, los_b * (100 + d) * (100 + (alc_t - alc_b)))

\* RequiredBeds from the census rounded to 1 decimal, as the result shows it
RequiredBeds_FromShownCensus(patient_days, occ_t) ==
    IF occ_t > 0
    THEN CeilDiv(RoundDiv(patient_days * 10, DaysPerYear) * 10, occ_t)
    ELSE 0

\* RequiredBeds dividing by at least 0.01 instead of returning 0
RequiredBeds_SmallestDivisor(patient_days, occ_t) ==
    CeilDiv(patient_days * 100, DaysPerYear * Max(occ_t, 1))

\* math.ceil(census_average / occ_t) if occ_t > 0 else 0
RequiredBeds(patient_days, occ_t) ==
    IF occ_t > 0 THEN CeilDiv(patient_days * 100, DaysPerYear * occ_t) ELSE 0

\* NursingFte dividing by annual_hours alone
NursingFte_NoProductivity(required_beds, staffing_factor) ==
    IF staffing_factor = None THEN None
    ELSE LET hppd == Get(staffing_factor, "hppd", 0)
             annual_hours == Get(staffing_factor, "annual_hours_per_fte", DefaultAnnualHours)
             productivity == Get(staffing_factor, "productivity_factor", 100)
         IN  IF annual_hours * productivity > 0
             THEN Some(RoundDiv(required_beds * hppd * DaysPerYear, annual_hours))
             ELSE None

\* round(required_beds * hppd * 365 / (annual_hours * productivity), 1)
NursingFte(required_beds, staffing_factor) ==
    IF staffing_factor = None THEN None
    ELSE LET hppd == Get(staffing_factor, "hppd", 0)
             annual_hours == Get(staffing_factor, "annual_hours_per_fte", DefaultAnnualHours)
             productivity == Get(staffing_factor, "productivity_factor", 100)
         IN  IF annual_hours * productivity > 0
             THEN Some(RoundDiv(required_beds * hppd * DaysPerYear * 100,
                                annual_hours * productivity))
             ELSE None

\* site_admissions['admissions_base'] if site_admissions else 100
BaselineAdmissions(historical_admissions, site_id) ==
    LET site_admissions == FirstOfSite(historical_admissions, site_id)
    IN  IF site_admissions /= None THEN site_admissions.admissions_base
        ELSE FallbackAdmissions

_calculate_site_result(site_id, req, baselines, staffed_beds, historical_admissions, staffing_factor) ==
    LET site_baseline == FirstOfSite(baselines, site_id)
        site_beds == FirstOfSite(staffed_beds, site_id)
    IN  IF site_baseline = None THEN None
        ELSE IF site_beds = None THEN None
        ELSE
        LET baseline_admissions == BaselineAdmissions(historical_admissions, site_id)
            admissions_projected ==
                AdmissionsProjected(baseline_admissions, req.params.growth_pct,
                                    req.horizon_years)
            los_effective ==
                LosEffective(Get(site_baseline, "los_base_days", 10),
                             req.params.los_delta, req.params.alc_target,
                             Get(site_baseline, "alc_rate", 0))
            seasonality_factor ==
                IF req.params.seasonality
                THEN _get_average_seasonality(site_id, req.program_id)
                ELSE SeasonUnit
            patient_days ==
                MulDivTrunc(admissions_projected * los_effective,
                            seasonality_factor, LosUnit, SeasonUnit)
            required_beds == RequiredBeds(patient_days, req.params.occupancy_target)
        IN  [site_id |-> site_id,
             site_code |-> Get(site_baseline, "site_code", ""),
             site_name |-> Get(site_baseline, "site_name", ""),
             admissions_projected |-> admissions_projected,
             los_effective |-> RoundDiv(los_effective, LosUnit \div 100),
             patient_days |-> patient_days,
             census_average |-> RoundDiv(patient_days * 10, DaysPerYear),
             required_beds |-> required_beds,
             staffed_beds |-> Get(site_beds, "staffed_beds", 0),
             capacity_gap |-> required_beds - Get(site_beds, "staffed_beds", 0),
             nursing_fte |-> NursingFte(required_beds, staffing_factor)]

-----------------------------------------------------------------------------
(* ScenarioService.calculate_scenario, one step per resumption *)

\* staffing_factors.get(pid) on the dict built by the fetch loop
DictGet(d, k) == IF k \in DOMAIN d THEN d[k] ELSE None

DictPut(d, k, v) == [x \in DOMAIN d \cup {k} |-> IF x = k THEN v ELSE d[x]]

\* NormalizedProgramIds keeping the first occurrence of each program id
NormalizedProgramIds_Deduplicated(req) ==
    LET ids == IF req.program_ids /= <<>> THEN req.program_ids ELSE <<req.program_id>>
        firsts == { n \in DOMAIN ids : \A m \in 1..(n - 1) : ids[m] /= ids[n] }
        RECURSIVE keep(_)
        keep(n) == IF n > Len(ids) THEN <<>>
                   ELSE (IF n \in firsts THEN <<ids[n]>> ELSE <<>>) \o keep(n + 1)
    IN  keep(1)

\* program_ids = getattr(request, 'program_ids', [request.program_id])
\*               or [request.program_id]
NormalizedProgramIds(req) ==
    IF req.program_ids /= <<>> THEN req.program_ids ELSE <<req.program_id>>

IdleLocals ==
    [pc |-> "idle", program_ids |-> <<>>, fetched |-> 0,
     baselines |-> <<>>, staffed_beds |-> <<>>, historical_admissions |-> <<>>,
     staffing_factors |-> <<>>,
     site_results |-> <<>>, total_required_beds |-> 0, total_staffed_beds |-> 0,
     total_admissions |-> 0, total_patient_days |-> 0, overall_total_fte |-> None,
     site_index |-> 0, program_index |-> 0,
     per_program_results |-> <<>>, total_staffed_for_site |-> 0,
     total_required |-> 0, total_adm |-> 0, total_days |-> 0,
     site_total_fte |-> 0, fte_count |-> 0,
     season_reads |-> 0, reads |-> <<>>,
     response |-> None]

\* lines 23-29: the locals before the first read
EnterLocals(req) ==
    [IdleLocals EXCEPT !.pc = "fetch", !.program_ids = NormalizedProgramIds(req)]

\* lines 32-41: the accessor calls made for one program, in order
ProgramReads(req, pid) ==
    << [accessor |-> "get_site_program_baseline", sites |-> req.sites, program_id |-> pid],
       [accessor |-> "get_site_staffed_beds", sites |-> req.sites, program_id |-> pid],
       [accessor |-> "get_baseline_admissions", sites |-> req.sites, program_id |-> pid],
       [accessor |-> "get_staffing_factor", sites |-> <<>>, program_id |-> pid] >>

\* a failed read taken for an empty result: the loop goes on
RaiseInFetch_Swallowed(L, req, k) ==
    [L EXCEPT !.reads = @ \o ProgramReads(req, L.program_ids[L.fetched + 1]),
              !.fetched = @ + 1,
              !.pc = IF L.fetched + 1 < Len(L.program_ids) THEN "fetch" ELSE "done",
              !.response = IF L.fetched + 1 < Len(L.program_ids) THEN None
                           ELSE [kpis |-> None, by_site |-> <<>>]]

\* lines 32-41 when the k-th read of the next program raises: nothing
\* catches it, calculate_scenario is left with the exception
RaiseInFetch(L, req, k) ==
    [L EXCEPT !.reads = @ \o SubSeq(ProgramReads(req, L.program_ids[L.fetched + 1]), 1, k),
              !.pc = "raised"]

\* lines 181, 216-222 when the lookup of month `month` raises inside
\* _get_average_seasonality
RaiseInProject(L, month) ==
    [L EXCEPT !.season_reads = @ + month, !.pc = "raised"]

\* FetchProgram reading the baseline, beds and admissions site by site
FetchProgram_PerSite(L, req, pid) ==
    LET sf == get_staffing_factor(pid)
        one(s) == SubSeq(ProgramReads([req EXCEPT !.sites = <<s>>], pid), 1, 3)
        RECURSIVE perSite(_)
        perSite(n) == IF n > Len(req.sites) THEN <<>>
                      ELSE one(req.sites[n]) \o perSite(n + 1)
    IN  [L EXCEPT
           !.reads = @ \o perSite(1) \o <<ProgramReads(req, pid)[4]>>,
           !.baselines = @ \o get_site_program_baseline(req.sites, pid, req.baseline_year),
           !.staffed_beds = @ \o get_site_staffed_beds(req.sites, pid, req.params.schedule_code),
           !.historical_admissions = @ \o get_baseline_admissions(req.sites, pid, req.baseline_year),
           !.staffing_factors = IF sf /= None THEN DictPut(@, pid, sf) ELSE @,
           !.fetched = @ + 1]

\* lines 32-43: the four reads of one program
FetchProgram(L, req, pid) ==
    LET sf == get_staffing_factor(pid)
    IN  [L EXCEPT
           !.reads = @ \o ProgramReads(req, pid),
           !.baselines = @ \o get_site_program_baseline(req.sites, pid, req.baseline_year),
           !.staffed_beds = @ \o get_site_staffed_beds(req.sites, pid, req.params.schedule_code),
           !.historical_admissions = @ \o get_baseline_admissions(req.sites, pid, req.baseline_year),
           !.staffing_factors = IF sf /= None THEN DictPut(@, pid, sf) ELSE @,
           !.fetched = @ + 1]

\* StartTotals with overall_total_fte = None whatever was fetched
StartTotals_FteNone(L) ==
    [L EXCEPT !.site_results = <<>>, !.total_required_beds = 0,
              !.total_staffed_beds = 0, !.total_admissions = 0,
              !.total_patient_days = 0, !.overall_total_fte = None]

\* StartTotals with the totals kept on the service object: a call starts
\* from the totals the previous call left
StartTotals_KeptOnService(L) ==
    LET done == { j \in DOMAIN inv : inv[j].pc = "done" }
        last == inv[CHOOSE j \in done : \A k \in done : k <= j]
    IN  [L EXCEPT !.site_results = <<>>,
                  !.total_required_beds =
                      IF done = {} THEN 0 ELSE last.total_required_beds,
                  !.total_staffed_beds = 0, !.total_admissions = 0,
                  !.total_patient_days = 0,
                  !.overall_total_fte =
                      IF L.staffing_factors /= <<>> THEN Some(0) ELSE None]

\* lines 46-51: the accumulators of the whole response
StartTotals(L) ==
    [L EXCEPT !.site_results = <<>>, !.total_required_beds = 0,
              !.total_staffed_beds = 0, !.total_admissions = 0,
              !.total_patient_days = 0,
              !.overall_total_fte = IF L.staffing_factors /= <<>> THEN Some(0) ELSE None]

\* StartSite with per_program_results kept on the service object: a site
\* starts from the list another invocation is filling
StartSite_SharedResults(L) ==
    LET busy == { j \in DOMAIN inv : inv[j].pc = "project" /\ inv[j] /= L }
    IN  [L EXCEPT !.per_program_results =
                      IF busy = {} THEN <<>>
                      ELSE inv[CHOOSE j \in busy : TRUE].per_program_results,
                  !.total_staffed_for_site = 0,
                  !.total_required = 0, !.total_adm = 0, !.total_days = 0,
                  !.site_total_fte = 0, !.fte_count = 0, !.program_index = 1]

\* lines 54-60: the accumulators of one site
StartSite(L) ==
    [L EXCEPT !.per_program_results = <<>>, !.total_staffed_for_site = 0,
              !.total_required = 0, !.total_adm = 0, !.total_days = 0,
              !.site_total_fte = 0, !.fte_count = 0, !.program_index = 1]

\* lines 64-66: the fetched rows of (site_id, pid)
ProgramRows(L, site_id, pid) ==
    [b  |-> SelectSeq(L.baselines,
                LAMBDA x : Get(x, "site_id", NullId) = site_id
                             /\ Get(x, "program_id", NullId) = pid),
     sb |-> SelectSeq(L.staffed_beds,
                LAMBDA x : Get(x, "site_id", NullId) = site_id
                             /\ Get(x, "program_id", NullId) = pid),
     ha |-> SelectSeq(L.historical_admissions,
                LAMBDA x : Get(x, "site_id", NullId) = site_id
                             /\ Get(x, "program_id", NullId) = pid)]

\* lines 68-76: the per-program request object
ProgramRequest(L, req, site_id, pid) ==
    [req EXCEPT !.sites = <<site_id>>, !.program_id = pid,
                !.program_ids = L.program_ids]

\* ProgramResult with the staffed-beds rows selected by site only
ProgramResult_BedsOfAnyProgram(L, req, site_id, pid) ==
    LET rows == ProgramRows(L, site_id, pid)
        sb   == SelectSeq(L.staffed_beds,
                  LAMBDA x : Get(x, "site_id", NullId) = site_id)
    IN  _calculate_site_result(site_id, ProgramRequest(L, req, site_id, pid),
                               rows.b, sb, rows.ha,
                               DictGet(L.staffing_factors, pid))

\* lines 63-78: the projection of (site_id, pid)
ProgramResult(L, req, site_id, pid) ==
    LET rows == ProgramRows(L, site_id, pid)
    IN  _calculate_site_result(site_id, ProgramRequest(L, req, site_id, pid),
                               rows.b, rows.sb, rows.ha,
                               DictGet(L.staffing_factors, pid))

\* Accumulate keeping the last program's values instead of the running sums
Accumulate_KeepLast(L, site_res) ==
    IF site_res = None THEN L
    ELSE [L EXCEPT
            !.per_program_results = Append(@, site_res),
            !.total_required = site_res.required_beds,
            !.total_staffed_for_site = site_res.staffed_beds,
            !.total_adm = site_res.admissions_projected,
            !.total_days = site_res.patient_days,
            !.site_total_fte = IF Truthy(site_res.nursing_fte)
                               THEN @ + Val(site_res.nursing_fte) ELSE @,
            !.fte_count = IF Truthy(site_res.nursing_fte) THEN @ + 1 ELSE @]

\* lines 180-181, 216-222: the awaits of get_seasonality_multiplier made by
\* one projection that got past its two early returns
SeasonReads(req, site_res) ==
    IF site_res /= None /\ req.params.seasonality THEN MonthsPerYear ELSE 0

\* lines 79-87
Accumulate(L, site_res) ==
    IF site_res = None THEN L
    ELSE [L EXCEPT
            !.per_program_results = Append(@, site_res),
            !.total_required = @ + site_res.required_beds,
            !.total_staffed_for_site = @ + site_res.staffed_beds,
            !.total_adm = @ + site_res.admissions_projected,
            !.total_days = @ + site_res.patient_days,
            !.site_total_fte = IF Truthy(site_res.nursing_fte)
                               THEN @ + Val(site_res.nursing_fte) ELSE @,
            !.fte_count = IF Truthy(site_res.nursing_fte) THEN @ + 1 ELSE @]

\* Aggregated with the los_effective of the first program that produced a
\* result
Aggregated_FirstProgramLos(L, site_id) ==
    [site_id |-> site_id,
     site_code |-> L.per_program_results[1].site_code,
     site_name |-> L.per_program_results[1].site_name,
     admissions_projected |-> L.total_adm,
     los_effective |-> L.per_program_results[1].los_effective,
     patient_days |-> L.total_days,
     census_average |-> RoundDiv(L.total_days * 10, DaysPerYear),
     required_beds |-> L.total_required,
     staffed_beds |-> L.total_staffed_for_site,
     capacity_gap |-> L.total_required - L.total_staffed_for_site,
     nursing_fte |-> IF L.fte_count > 0 THEN Some(L.site_total_fte) ELSE None]

\* Aggregated with los_effective weighted by the programs' patient days
Aggregated_WeightedLos(L, site_id) ==
    [site_id |-> site_id,
     site_code |-> L.per_program_results[1].site_code,
     site_name |-> L.per_program_results[1].site_name,
     admissions_projected |-> L.total_adm,
     los_effective |->
        IF L.total_days > 0
        THEN RoundDiv(SumSeq([k \in DOMAIN L.per_program_results |->
                                L.per_program_results[k].los_effective
                                  * L.per_program_results[k].patient_days]),
                      L.total_days)
        ELSE 0,
     patient_days |-> L.total_days,
     census_average |-> RoundDiv(L.total_days * 10, DaysPerYear),
     required_beds |-> L.total_required,
     staffed_beds |-> L.total_staffed_for_site,
     capacity_gap |-> L.total_required - L.total_staffed_for_site,
     nursing_fte |-> IF L.fte_count > 0 THEN Some(L.site_total_fte) ELSE None]

\* lines 92-104
Aggregated(L, site_id) ==
    [site_id |-> site_id,
     site_code |-> L.per_program_results[1].site_code,
     site_name |-> L.per_program_results[1].site_name,
     admissions_projected |-> L.total_adm,
     los_effective |->
        RoundDiv(SumSeq([k \in DOMAIN L.per_program_results |->
                           L.per_program_results[k].los_effective]),
                 Len(L.per_program_results)),
     patient_days |-> L.total_days,
     census_average |-> RoundDiv(L.total_days * 10, DaysPerYear),
     required_beds |-> L.total_required,
     staffed_beds |-> L.total_staffed_for_site,
     capacity_gap |-> L.total_required - L.total_staffed_for_site,
     nursing_fte |-> IF L.fte_count > 0 THEN Some(L.site_total_fte) ELSE None]

\* CloseSite emitting the sites in the order of the fetched rows (site_id)
\* instead of the order of request.sites
CloseSite_InRowOrder(L, site_id) ==
    IF L.per_program_results = <<>> THEN L
    ELSE LET aggregated == Aggregated(L, site_id)
             before == SelectSeq(L.site_results, LAMBDA r : r.site_id <= site_id)
             after  == SelectSeq(L.site_results, LAMBDA r : r.site_id > site_id)
         IN  [L EXCEPT
                !.site_results = before \o <<aggregated>> \o after,
                !.total_required_beds = @ + aggregated.required_beds,
                !.total_staffed_beds = @ + aggregated.staffed_beds,
                !.total_admissions = @ + aggregated.admissions_projected,
                !.total_patient_days = @ + aggregated.patient_days,
                !.overall_total_fte =
                    IF Truthy(aggregated.nursing_fte)
                    THEN Some((IF Truthy(@) THEN Val(@) ELSE 0)
                                + Val(aggregated.nursing_fte))
                    ELSE @]

\* CloseSite without the `continue` of lines 89-90: a site without results
\* is emitted with zero totals
CloseSite_EmitEmpty(L, site_id) ==
    [L EXCEPT !.site_results =
        Append(@, [site_id |-> site_id, site_code |-> "", site_name |-> "",
                   admissions_projected |-> L.total_adm, los_effective |-> LosFloor \div 1000,
                   patient_days |-> L.total_days, census_average |-> 0,
                   required_beds |-> L.total_required,
                   staffed_beds |-> L.total_staffed_for_site,
                   capacity_gap |-> L.total_required - L.total_staffed_for_site,
                   nursing_fte |-> None])]

\* lines 89-112
CloseSite(L, site_id) ==
    IF L.per_program_results = <<>> THEN L
    ELSE LET aggregated == Aggregated(L, site_id)
         IN  [L EXCEPT
                !.site_results = Append(@, aggregated),
                !.total_required_beds = @ + aggregated.required_beds,
                !.total_staffed_beds = @ + aggregated.staffed_beds,
                !.total_admissions = @ + aggregated.admissions_projected,
                !.total_patient_days = @ + aggregated.patient_days,
                !.overall_total_fte =
                    IF Truthy(aggregated.nursing_fte)
                    THEN Some((IF Truthy(@) THEN Val(@) ELSE 0)
                                + Val(aggregated.nursing_fte))
                    ELSE @]

\* Kpis with avg_los_effective as the mean of the sites' los_effective
Kpis_LosMeanOfSites(L) ==
    [total_required_beds |-> L.total_required_beds,
     total_staffed_beds |-> L.total_staffed_beds,
     total_capacity_gap |-> L.total_required_beds - L.total_staffed_beds,
     total_nursing_fte |-> L.overall_total_fte,
     avg_occupancy |->
        IF L.total_staffed_beds > 0
        THEN RoundDiv(L.total_patient_days * 1000, L.total_staffed_beds * DaysPerYear)
        ELSE 0,
     total_admissions |-> L.total_admissions,
     avg_los_effective |->
        IF L.site_results /= <<>>
        THEN RoundDiv(SumSeq([n \in DOMAIN L.site_results |->
                                L.site_results[n].los_effective]),
                      Len(L.site_results))
        ELSE 0]

\* Kpis with the capacity gap taken the other way round
Kpis_GapReversed(L) ==
    [total_required_beds |-> L.total_required_beds,
     total_staffed_beds |-> L.total_staffed_beds,
     total_capacity_gap |-> L.total_staffed_beds - L.total_required_beds,
     total_nursing_fte |-> L.overall_total_fte,
     avg_occupancy |->
        IF L.total_staffed_beds > 0
        THEN RoundDiv(L.total_patient_days * 1000, L.total_staffed_beds * DaysPerYear)
        ELSE 0,
     total_admissions |-> L.total_admissions,
     avg_los_effective |->
        IF L.total_admissions > 0
        THEN RoundDiv(L.total_patient_days * 100, L.total_admissions)
        ELSE 0]

\* lines 114-125
Kpis(L) ==
    [total_required_beds |-> L.total_required_beds,
     total_staffed_beds |-> L.total_staffed_beds,
     total_capacity_gap |-> L.total_required_beds - L.total_staffed_beds,
     total_nursing_fte |-> L.overall_total_fte,
     avg_occupancy |->
        IF L.total_staffed_beds > 0
        THEN RoundDiv(L.total_patient_days * 1000, L.total_staffed_beds * DaysPerYear)
        ELSE 0,
     total_admissions |-> L.total_admissions,
     avg_los_effective |->
        IF L.total_admissions > 0
        THEN RoundDiv(L.total_patient_days * 100, L.total_admissions)
        ELSE 0]

\* lines 127-135
Respond(L, req) ==
    [L EXCEPT !.pc = "done",
              !.response = [kpis |-> Kpis(L), by_site |-> L.site_results,
                            metadata |-> [request_params |-> req,
                                          calculation_date |-> "2025-01-01",
                                          model_version |-> "1.0"]]]

-----------------------------------------------------------------------------
(* Actions of calculate_scenario *)

\* the request argument of invocation i: the request of the client, or the
\* i-th of the requests the clients have sent
RequestOf(i) ==
    IF "requests" \in DOMAIN api /\ i \in DOMAIN api.requests
    THEN api.requests[i] ELSE request

\* lines 31-53: the invocation resumed after the reads of its next program
FetchStep(L, req) ==
    LET L1 == FetchProgram(L, req, L.program_ids[L.fetched + 1])
        L2 == StartTotals(L1)
    IN  IF L1.fetched < Len(L1.program_ids) THEN L1
        ELSE IF req.sites = <<>> THEN Respond(L2, req)
        ELSE [StartSite(L2) EXCEPT !.pc = "project", !.site_index = 1]

\* lines 62-135: the invocation resumed after _calculate_site_result
ProjectStep(L, req) ==
    LET site_id  == req.sites[L.site_index]
        pid      == L.program_ids[L.program_index]
        site_res == ProgramResult(L, req, site_id, pid)
        L1       == [Accumulate(L, site_res) EXCEPT
                       !.season_reads = @ + SeasonReads(req, site_res)]
        L2       == CloseSite(L1, site_id)
    IN  IF L.program_index < Len(L.program_ids)
        THEN [L1 EXCEPT !.program_index = @ + 1]
        ELSE IF L.site_index < Len(req.sites)
        THEN [StartSite(L2) EXCEPT !.site_index = @ + 1]
        ELSE Respond(L2, req)

\* the client sends the request: calculate_scenario runs to its first read
Call(i) ==
    /\ i <= callBudget
    /\ inv[i].pc = "idle"
    /\ \A j \in 1..(i - 1) : inv[j].pc = "done"
    /\ inv' = [inv EXCEPT ![i] = EnterLocals(RequestOf(i))]
    /\ UNCHANGED <<db, request, callBudget, engine, lookup, api>>

\* the reads of the next program return; after the last one the site loop
\* is entered
Fetch(i) ==
    /\ inv[i].pc = "fetch"
    /\ inv' = [inv EXCEPT ![i] = FetchStep(inv[i], RequestOf(i))]
    /\ UNCHANGED <<db, request, callBudget, engine, lookup, api>>

\* _calculate_site_result of the current site and program returns; after the
\* last program the site is aggregated, after the last site the response built
Project(i) ==
    /\ inv[i].pc = "project"
    /\ inv' = [inv EXCEPT ![i] = ProjectStep(inv[i], RequestOf(i))]
    /\ UNCHANGED <<db, request, callBudget, engine, lookup, api>>

-----------------------------------------------------------------------------
(* Inputs *)

\* non-empty lists over S of length at most n
ListsUpTo(S, n) == UNION { [1..k -> S] : k \in 1..n }

\* growth_pct and baseline admissions drawn for the projection on its own
GrowthChoices == {-20, -1, 0, 1, 2, 20}
AdmissionChoices == {1, 3, 250}

\* ScenarioParams a validated request can carry
ParamChoices ==
    { [occupancy_target |-> 90, los_delta |-> -3, alc_target |-> 12,
       growth_pct |-> 2, schedule_code |-> "Sched-A", seasonality |-> FALSE],
      [occupancy_target |-> 80, los_delta |-> -50, alc_target |-> 0,
       growth_pct |-> -20, schedule_code |-> "Sched-A", seasonality |-> TRUE] }

\* a request as ScenarioRequest.ensure_program_ids leaves it
MakeRequest(sites, program_ids, horizon_years, params) ==
    [sites |-> sites, program_id |-> program_ids[1], program_ids |-> program_ids,
     baseline_year |-> BaselineYear, horizon_years |-> horizon_years,
     params |-> params]

\* the values of the rows of a site and program; the tables are loaded from
\* files without a range check, so site 2 holds a zero and a negative
\* los_base_days and a zero staffed_beds
LosBaseOf(pr) ==
    IF pr = <<1, 1>> THEN 58 ELSE IF pr = <<1, 2>> THEN 3
    ELSE IF pr = <<2, 1>> THEN 0 ELSE -20
AlcRateOf(pr) ==
    IF pr = <<1, 1>> THEN 12 ELSE IF pr = <<1, 2>> THEN 30
    ELSE IF pr = <<2, 1>> THEN 5 ELSE 8
StaffedBedsOf(pr) ==
    IF pr = <<1, 1>> THEN 69 ELSE IF pr = <<1, 2>> THEN 20
    ELSE IF pr = <<2, 1>> THEN 0 ELSE 8
StaysOf(pr) ==
    IF pr = <<1, 1>> THEN 250 ELSE IF pr = <<1, 2>> THEN 40
    ELSE IF pr = <<2, 1>> THEN 1 ELSE 120

BaselineRow(pr) ==
    [site_id |-> pr[1], program_id |-> pr[2], baseline_year |-> BaselineYear,
     los_base_days |-> LosBaseOf(pr), alc_rate |-> AlcRateOf(pr)]
BedsRow(pr) ==
    [site_id |-> pr[1], program_id |-> pr[2], schedule_code |-> "Sched-A",
     staffed_beds |-> StaffedBedsOf(pr)]
StaysRow(pr) ==
    [facility_id |-> pr[1], program_id |-> pr[2], admit_year |-> BaselineYear,
     stays |-> StaysOf(pr), los_days |-> 55, alc_flag |-> 12]

\* staffing_factors rows of a program: none, the generated one, one with a
\* small hppd, one with a zero productivity_factor
FactorKinds == {"none", "usual", "low", "zero"}
FactorRows(program_id, kind) ==
    IF kind = "none" THEN {}
    ELSE { [program_id |-> program_id, subprogram_id |-> NullId,
            hppd |-> IF kind = "low" THEN 1 ELSE 65,
            annual_hours_per_fte |-> DefaultAnnualHours,
            productivity_factor |-> IF kind = "zero" THEN 0
                                    ELSE IF kind = "low" THEN 100 ELSE 90] }

\* a subprogram-level row, which get_staffing_factor must not return
SubprogramFactor ==
    [program_id |-> 1, subprogram_id |-> 1, hppd |-> 125,
     annual_hours_per_fte |-> DefaultAnnualHours, productivity_factor |-> 95]

\* seasonality_monthly as generate_refs.py fills it: a global row per month,
\* program rows for some months; plus one site and program row
GlobalMultiplier(month) ==
    IF month \in {3, 10} THEN 102 ELSE IF month \in {4, 9} THEN 101
    ELSE IF month \in {7, 8} THEN 98 ELSE IF month = 11 THEN 103
    ELSE IF month = 12 THEN 104 ELSE 100
SeasonTable ==
    { [site_id |-> NullId, program_id |-> NullId, month |-> m,
       multiplier |-> GlobalMultiplier(m)] : m \in Months }
    \cup { [site_id |-> NullId, program_id |-> 2, month |-> m,
            multiplier |-> IF m = 12 THEN 108 ELSE 105] : m \in {1, 7, 8, 12} }
    \cup { [site_id |-> 1, program_id |-> 1, month |-> 1, multiplier |-> 90] }

MakeDb(bset, sbset, ipset, kinds, season) ==
    [clinical_baseline |-> { BaselineRow(pr) : pr \in bset },
     staffed_beds_schedule |-> { BedsRow(pr) : pr \in sbset },
     ip_stays |-> { StaysRow(pr) : pr \in ipset },
     staffing_factors |->
        {SubprogramFactor} \cup UNION { FactorRows(p, kinds[p]) : p \in DOMAIN kinds },
     seasonality_monthly |-> season]

\* the sites that may hold a baseline row without a staffed-beds row, or the
\* reverse, for a program; the other sites hold both rows or neither
PartialSites == {1}

\* the programs whose staffing factor may be one of the unusual kinds; the
\* other programs have the generated factor or none
UnusualFactorPrograms == {1}

NoDb == MakeDb({}, {}, {}, <<>>, {})
NoRequest == MakeRequest(<<1>>, <<1>>, 0, CHOOSE p \in ParamChoices : ~p.seasonality)
NoEngine == [pc |-> "unused"]
NoLookup == [pc |-> "unused"]
NoApi == [pc |-> "unused"]

\* a request drawn from the given site lists, parameters and horizons,
\* against tables that hold rows of the requested sites and programs;
\* `partial` and `unusual` are the sites and programs drawn with incomplete
\* rows and unusual factors
RequestInputs(siteLists, paramSet, horizons, ipsets, partial, unusual) ==
    \E sites \in siteLists,
       program_ids \in ListsUpTo(Programs, MaxProgramList),
       params \in paramSet, horizon_years \in horizons :
         /\ request = MakeRequest(sites, program_ids, horizon_years, params)
         /\ \E bset \in SUBSET (Range(sites) \X Range(program_ids)),
               sbset \in SUBSET (Range(sites) \X Range(program_ids)),
               ipset \in ipsets,
               kinds \in [Range(program_ids) -> FactorKinds] :
              /\ \A pr \in bset \cup sbset :
                    pr[1] \in partial \/ pr \in bset \cap sbset
              /\ \A p \in DOMAIN kinds :
                    p \in unusual \/ kinds[p] \in {"none", "usual"}
              /\ db = MakeDb(bset, sbset, ipset, kinds, SeasonTable)

\* the client sends one validated request, `budget` times
ServiceInputs(budget, ipsets, partial, unusual) ==
    /\ RequestInputs(ListsUpTo(Sites, MaxSiteList), ParamChoices, {MaxHorizon},
                     ipsets, partial, unusual)
    /\ callBudget = budget
    /\ inv = [i \in 1..MaxCalls |-> IdleLocals]

InitService(budget, ipsets, partial, unusual) ==
    /\ ServiceInputs(budget, ipsets, partial, unusual)
    /\ engine = NoEngine
    /\ lookup = NoLookup
    /\ api = NoApi

Init == InitService(1, {Pairs}, PartialSites, UnusualFactorPrograms)

Next == \E i \in 1..MaxCalls : Call(i) \/ Fetch(i) \/ Project(i)

Spec == Init /\ [][Next]_vars

\* the same request sent MaxCalls times, one call after the other
InitRepeat == InitService(MaxCalls, {Pairs}, {}, {})

SpecRepeat == InitRepeat /\ [][Next]_vars

\* requests over the default horizon; the stays of a site and program, where
\* the tables hold them, are 100
InitDefaultHorizon ==
    /\ \E sites \in ListsUpTo(Sites, MaxSiteList),
          program_ids \in ListsUpTo(Programs, MaxProgramList),
          params \in ParamChoices,
          ipset \in {{}, Pairs}, kind \in {"none", "usual"} :
         /\ request = MakeRequest(sites, program_ids, DefaultHorizon, params)
         /\ \E bset \in SUBSET (Range(sites) \X Range(program_ids)) :
              db = [MakeDb(bset, bset, ipset, [p \in Range(program_ids) |-> kind],
                           SeasonTable)
                      EXCEPT !.ip_stays = { [ip EXCEPT !.stays = 100] : ip \in @ }]
    /\ callBudget = 1
    /\ inv = [i \in 1..MaxCalls |-> IdleLocals]
    /\ engine = NoEngine
    /\ lookup = NoLookup
    /\ api = NoApi

SpecDefaultHorizon == InitDefaultHorizon /\ [][Next]_vars

-----------------------------------------------------------------------------
(* _calculate_site_result called on its own *)

EngineParams ==
    { [occupancy_target |-> occ, los_delta |-> d, alc_target |-> 12,
       growth_pct |-> g, schedule_code |-> "Sched-A", seasonality |-> season] :
      occ \in {0, 90}, d \in {-50, -3}, g \in GrowthChoices, season \in BOOLEAN }

EngineFactors ==
    { None } \cup
    { [hppd |-> 65, annual_hours_per_fte |-> DefaultAnnualHours,
       productivity_factor |-> prod] : prod \in {0, 90} }

\* the arguments of a call for site 1 and program 1; admissions = 0 stands
\* for no historical row
EngineArguments(params, horizon_years, los_base_days, alc_rate, has_baseline, has_beds, admissions, staffing_factor) ==
    [pc |-> "ready", site_id |-> 1,
     request |-> MakeRequest(<<1>>, <<1>>, horizon_years, params),
     baselines |->
        IF has_baseline
        THEN <<[site_id |-> 1, program_id |-> 1, baseline_year |-> BaselineYear,
                los_base_days |-> los_base_days, alc_rate |-> alc_rate,
                site_code |-> dim_site(1).site_code,
                site_name |-> dim_site(1).site_name]>>
        ELSE <<>>,
     staffed_beds |->
        IF has_beds
        THEN <<[site_id |-> 1, program_id |-> 1, staffed_beds |-> 69,
                site_code |-> dim_site(1).site_code,
                site_name |-> dim_site(1).site_name]>>
        ELSE <<>>,
     historical_admissions |->
        IF admissions > 0
        THEN <<[site_id |-> 1, admissions_base |-> admissions,
                los_observed |-> 55, alc_rate_observed |-> 12]>>
        ELSE <<>>,
     staffing_factor |-> staffing_factor,
     result |-> None]

InitEngine ==
    /\ \E params \in EngineParams, horizon_years \in 0..MaxHorizon,
          los_base_days \in {0, 3, 58}, alc_rate \in {12, 30},
          has_baseline \in BOOLEAN, has_beds \in BOOLEAN,
          admissions \in {0} \cup AdmissionChoices,
          staffing_factor \in EngineFactors :
         engine = EngineArguments(params, horizon_years, los_base_days, alc_rate,
                                  has_baseline, has_beds, admissions, staffing_factor)
    /\ db = MakeDb({}, {}, {}, <<>>, SeasonTable)
    /\ request = NoRequest
    /\ callBudget = 0
    /\ inv = [i \in 1..MaxCalls |-> IdleLocals]
    /\ lookup = NoLookup
    /\ api = NoApi

EngineResult(e, req) ==
    _calculate_site_result(e.site_id, req, e.baselines, e.staffed_beds,
                           e.historical_admissions, e.staffing_factor)

EngineProject ==
    /\ engine.pc = "ready"
    /\ engine' = [engine EXCEPT !.pc = "returned",
                                !.result = EngineResult(engine, engine.request)]
    /\ UNCHANGED <<db, request, callBudget, inv, lookup, api>>

NextEngine == EngineProject

SpecEngine == InitEngine /\ [][NextEngine]_vars

-----------------------------------------------------------------------------
(* POST /scenarios/compute: the request is parsed into a ScenarioRequest, the
   handler checks it and awaits calculate_scenario *)

\* the Field constraints of ScenarioParams
ValidParams(params) ==
    /\ params.occupancy_target >= 80 /\ params.occupancy_target <= 100
    /\ params.los_delta >= -50 /\ params.los_delta <= 50
    /\ params.alc_target >= 0 /\ params.alc_target <= 50
    /\ params.growth_pct >= -20 /\ params.growth_pct <= 20

\* ScenarioRequest: its fields' types, ScenarioParams, ensure_program_ids
ValidRequest(req) ==
    /\ ValidParams(req.params)
    /\ ~(req.program_ids = <<>> /\ req.program_id = NullId)

\* compute_scenario without the check of request.sites
compute_scenario_NoSiteCheck(req) ==
    IF ~ValidRequest(req) THEN Unprocessable
    ELSE IF req.params.occupancy_target < 80 THEN BadRequest
    ELSE Ok

\* what the endpoint does with a request before any await: the status it
\* rejects it with, or Ok when it goes on to call calculate_scenario
compute_scenario(req) ==
    IF ~ValidRequest(req) THEN Unprocessable
    ELSE IF req.sites = <<>> THEN BadRequest
    ELSE IF req.params.occupancy_target < 80 THEN BadRequest
    ELSE Ok

\* requests as clients send them: also with a low occupancy_target
RawParamChoices ==
    ParamChoices \cup
    { [occupancy_target |-> occ, los_delta |-> -3, alc_target |-> 12,
       growth_pct |-> 2, schedule_code |-> "Sched-A", seasonality |-> FALSE] :
      occ \in {50, 79} }

\* ... with an empty site list, and with a negative horizon_years
InitEndpoint ==
    /\ RequestInputs({<<>>} \cup ListsUpTo(Sites, MaxSiteList), RawParamChoices,
                     {-1, MaxHorizon}, {Pairs}, {}, {})
    /\ callBudget = 0
    /\ inv = [i \in 1..MaxCalls |-> IdleLocals]
    /\ engine = NoEngine
    /\ lookup = NoLookup
    /\ api = [pc |-> "received", status |-> 0, body |-> None]

\* the handler runs up to its await, or to the rejection
Receive ==
    /\ api.pc = "received"
    /\ LET status == compute_scenario(request)
       IN  IF status = Ok
           THEN /\ api' = [api EXCEPT !.pc = "awaiting"]
                /\ callBudget' = 1
           ELSE /\ api' = [api EXCEPT !.pc = "responded", !.status = status]
                /\ UNCHANGED callBudget
    /\ UNCHANGED <<db, request, inv, engine, lookup>>

\* calculate_scenario has returned: the result is the reply
Reply ==
    /\ api.pc = "awaiting"
    /\ callBudget >= 1 /\ inv[1].pc = "done"
    /\ api' = [api EXCEPT !.pc = "responded", !.status = Ok,
                          !.body = inv[1].response]
    /\ UNCHANGED <<db, request, callBudget, inv, engine, lookup>>

NextEndpoint == Receive \/ Next \/ Reply

SpecEndpoint == InitEndpoint /\ [][NextEndpoint]_vars

-----------------------------------------------------------------------------
(* A request through the service and a direct call of the projection, with
   the values that make a denominator zero *)

InitGuards == InitService(1, {Pairs}, {}, UnusualFactorPrograms)

\* once the request is answered, the projection is called directly
DirectCall ==
    /\ engine.pc = "unused"
    /\ \A i \in 1..callBudget : inv[i].pc = "done"
    /\ \E params \in EngineParams, staffing_factor \in EngineFactors :
         /\ params.los_delta = -3 /\ params.growth_pct = 2 /\ ~params.seasonality
         /\ engine' = EngineArguments(params, MaxHorizon, 58, 12, TRUE, TRUE, 0,
                                      staffing_factor)
    /\ UNCHANGED <<db, request, callBudget, inv, lookup, api>>

NextGuards == Next \/ DirectCall \/ NextEngine

SpecGuards == InitGuards /\ [][NextGuards]_vars

-----------------------------------------------------------------------------
(* get_seasonality_multiplier called on its own *)

\* (site_id, program_id) columns a seasonality row can carry
SeasonKeys == (Sites \cup {NullId}) \X (Programs \cup {NullId})

\* the multiplier of a row, different for every row and from 1.0
SeasonValue(key, month) == 80 + 10 * key[1] + 3 * key[2] + month

SeasonRow(key, month) ==
    [site_id |-> key[1], program_id |-> key[2], month |-> month,
     multiplier |-> SeasonValue(key, month)]

InitLookup ==
    /\ \E first \in SUBSET SeasonKeys, later \in {{}, {<<NullId, NullId>>}, SeasonKeys} :
         db = MakeDb({}, {}, {}, <<>>,
                     { SeasonRow(k, 1) : k \in first }
                       \cup { SeasonRow(k, m) : k \in later, m \in 2..MaxSeasonMonth })
    /\ \E site_id \in Sites, program_id \in Programs, month \in 1..(MaxSeasonMonth + 1) :
         lookup = [pc |-> "ready", site_id |-> site_id, program_id |-> program_id,
                   month |-> month, result |-> 0]
    /\ request = NoRequest
    /\ callBudget = 0
    /\ inv = [i \in 1..MaxCalls |-> IdleLocals]
    /\ engine = NoEngine
    /\ api = NoApi

Lookup ==
    /\ lookup.pc = "ready"
    /\ lookup' = [lookup EXCEPT
                    !.pc = "returned",
                    !.result = get_seasonality_multiplier(lookup.site_id,
                                                          lookup.program_id,
                                                          lookup.month)]
    /\ UNCHANGED <<db, request, callBudget, inv, engine, api>>

NextLookup == Lookup

SpecLookup == InitLookup /\ [][NextLookup]_vars

-----------------------------------------------------------------------------
(* What the claims speak of *)

Calls == 1..MaxCalls
Done(i) == inv[i].pc = "done"
BySite(i) == inv[i].response.by_site
KpisOf(i) == inv[i].response.kpis
EmittedSites(i) == { BySite(i)[k].site_id : k \in DOMAIN BySite(i) }
RequestedSites == Range(request.sites)
RequestedPrograms == Range(request.program_ids)

\* the tables hold a row of the request's year / schedule for the site and program
HasBaseline(s, p) ==
    \E c \in db.clinical_baseline :
        c.site_id = s /\ c.program_id = p /\ c.baseline_year = request.baseline_year
HasBeds(s, p) ==
    \E b \in db.staffed_beds_schedule :
        b.site_id = s /\ b.program_id = p /\ b.schedule_code = request.params.schedule_code
HasBoth(s, p) == HasBaseline(s, p) /\ HasBeds(s, p)
HasData(s) == \E p \in RequestedPrograms : HasBoth(s, p)

-----------------------------------------------------------------------------
(* C1..C10 *)

\* C1: a requested site is in by_site if and only if some requested program
\* has both a clinical-baseline row and a staffed-beds row for it; a baseline
\* row of one program and a staffed-beds row of another do not make a result.
C1_EmittedIffBothRows ==
    \A i \in Calls : Done(i) =>
        \A s \in RequestedSites : (s \in EmittedSites(i)) <=> HasData(s)

\* C1 witness: a finished call that emitted one site and dropped another whose
\* baseline row and staffed-beds row belong to different requested programs
C1_Witness ==
    \E i \in Calls : Done(i) /\ \E s, t \in RequestedSites :
        /\ s \notin EmittedSites(i)
        /\ \E p \in RequestedPrograms : HasBaseline(s, p)
        /\ \E q \in RequestedPrograms : HasBeds(s, q)
        /\ t \in EmittedSites(i)

\* C2: a call naming a site without any baseline row still completes (every
\* unfinished call has a next read or projection to resume at), by_site
\* leaves that site out and is no longer than request.sites; when no requested
\* site has data by_site is empty and the integer KPI totals are 0.
C2_MissingSiteOmitted ==
    \A i \in Calls :
        /\ inv[i].pc = "fetch" => inv[i].fetched < Len(inv[i].program_ids)
        /\ inv[i].pc = "project" =>
             /\ inv[i].site_index \in DOMAIN request.sites
             /\ inv[i].program_index \in DOMAIN inv[i].program_ids
        /\ Done(i) =>
            /\ \A s \in RequestedSites :
                 (\A p \in RequestedPrograms : ~HasBaseline(s, p))
                     => s \notin EmittedSites(i)
            /\ Len(BySite(i)) <= Len(request.sites)
            /\ (\A s \in RequestedSites : ~HasData(s)) =>
                 /\ BySite(i) = <<>>
                 /\ KpisOf(i).total_required_beds = 0
                 /\ KpisOf(i).total_staffed_beds = 0
                 /\ KpisOf(i).total_capacity_gap = 0
                 /\ KpisOf(i).total_admissions = 0

\* C2 witness: a finished call with fewer entries than requested sites, one
\* of them lacking every baseline row
C2_Witness ==
    \E i \in Calls :
        /\ Done(i)
        /\ BySite(i) /= <<>> /\ Len(BySite(i)) < Len(request.sites)
        /\ \E s \in RequestedSites :
             (\A p \in RequestedPrograms : ~HasBaseline(s, p)) /\ HasBeds(s, 1)

\* C3: the KPI totals are the sums over by_site, and total_capacity_gap is
\* total_required_beds - total_staffed_beds, the sum of the sites' gaps.
C3_KpiTotalsAreSums ==
    \A i \in Calls : Done(i) =>
        LET r == BySite(i)
            k == KpisOf(i)
        IN  /\ k.total_required_beds = SumSeq([n \in DOMAIN r |-> r[n].required_beds])
            /\ k.total_staffed_beds = SumSeq([n \in DOMAIN r |-> r[n].staffed_beds])
            /\ k.total_admissions = SumSeq([n \in DOMAIN r |-> r[n].admissions_projected])
            /\ k.total_capacity_gap = k.total_required_beds - k.total_staffed_beds
            /\ k.total_capacity_gap = SumSeq([n \in DOMAIN r |-> r[n].capacity_gap])

\* C3 witness: a finished call with two emitted sites and non-zero totals
C3_Witness ==
    \E i \in Calls :
        /\ Done(i) /\ Len(BySite(i)) = 2
        /\ BySite(i)[1].site_id /= BySite(i)[2].site_id
        /\ KpisOf(i).total_staffed_beds > 0 /\ KpisOf(i).total_capacity_gap /= 0

\* the stays the tables hold for a site, program and the request's year
StaysRows(s, p) ==
    { ip \in db.ip_stays :
        ip.facility_id = s /\ ip.program_id = p /\ ip.admit_year = request.baseline_year }

\* C4: the baseline admissions of the projection of a site and program are the
\* admissions_base of the historical row of that site and program; 100 is
\* used only when there is no such row.
C4_AdmissionsFromHistoricalRow ==
    \A i \in Calls : inv[i].pc = "project" =>
        LET s == request.sites[inv[i].site_index]
            p == inv[i].program_ids[inv[i].program_index]
            used == BaselineAdmissions(ProgramRows(inv[i], s, p).ha, s)
        IN  IF StaysRows(s, p) /= {}
            THEN \E ip \in StaysRows(s, p) : used = ip.stays
            ELSE used = FallbackAdmissions

\* the staffing factor of a program yields an FTE value
FactorYieldsFte(p) ==
    LET sf == get_staffing_factor(p)
    IN  sf /= None /\ sf.annual_hours_per_fte * sf.productivity_factor > 0

\* positions of program_ids whose program produced a result and an FTE at s
FtePositions(s) ==
    { n \in DOMAIN request.program_ids :
        HasBoth(s, request.program_ids[n]) /\ FactorYieldsFte(request.program_ids[n]) }

RECURSIVE SumFte(_, _, _)
SumFte(i, s, positions) ==
    IF positions = {} THEN 0
    ELSE LET n == CHOOSE n \in positions : TRUE
         IN  Val(ProgramResult(inv[i], request, s, request.program_ids[n]).nursing_fte)
               + SumFte(i, s, positions \ {n})

\* C5: a site's nursing_fte is absent exactly when no requested program with a
\* result at the site produced an FTE value (0.0 counts as produced);
\* otherwise it is the sum of the per-program values.
C5_SiteFteAbsentIffNoneProduced ==
    \A i \in Calls : Done(i) =>
        \A n \in DOMAIN BySite(i) :
            LET r == BySite(i)[n]
            IN  IF FtePositions(r.site_id) = {} THEN r.nursing_fte = None
                ELSE /\ r.nursing_fte /= None
                     /\ Val(r.nursing_fte) = SumFte(i, r.site_id, FtePositions(r.site_id))

\* the site-level FTE values of a response, an absent one counting 0
SiteFteSum(i) ==
    SumSeq([n \in DOMAIN BySite(i) |->
              IF BySite(i)[n].nursing_fte = None THEN 0
              ELSE Val(BySite(i)[n].nursing_fte)])

\* C6 as claimed: total_nursing_fte is absent exactly when no emitted site has
\* a nursing_fte, and is the sum of the sites' values otherwise.
C6_TotalFteAbsentIffNoSiteFte ==
    \A i \in Calls : Done(i) =>
        IF \A n \in DOMAIN BySite(i) : BySite(i)[n].nursing_fte = None
        THEN KpisOf(i).total_nursing_fte = None
        ELSE /\ KpisOf(i).total_nursing_fte /= None
             /\ Val(KpisOf(i).total_nursing_fte) = SiteFteSum(i)

\* C6 amended: total_nursing_fte is absent exactly when no requested program
\* has a staffing factor; otherwise it is the sum of the site-level nursing_fte
\* values over by_site, which is 0.0 when no emitted site has one.
C6_TotalFteAbsentIffNoFactor ==
    \A i \in Calls : Done(i) =>
        IF \A p \in RequestedPrograms : get_staffing_factor(p) = None
        THEN KpisOf(i).total_nursing_fte = None
        ELSE /\ KpisOf(i).total_nursing_fte /= None
             /\ Val(KpisOf(i).total_nursing_fte) = SiteFteSum(i)

\* C6 witness: a staffing factor exists, no emitted site has an FTE, and the
\* total is 0.0
C6_Witness ==
    \E i \in Calls :
        /\ Done(i)
        /\ \E p \in RequestedPrograms : get_staffing_factor(p) /= None
        /\ \A n \in DOMAIN BySite(i) : BySite(i)[n].nursing_fte = None
        /\ KpisOf(i).total_nursing_fte = Some(0)

\* C8: every per-program result and every aggregated site result has
\* los_effective >= 0.25, also where the unfloored product is zero or negative.
C8_LosFloor ==
    \A i \in Calls :
        /\ \A n \in DOMAIN inv[i].per_program_results :
             inv[i].per_program_results[n].los_effective >= LosFloor \div 1000
        /\ \A n \in DOMAIN inv[i].site_results :
             inv[i].site_results[n].los_effective >= LosFloor \div 1000
        /\ Done(i) => \A n \in DOMAIN BySite(i) :
             BySite(i)[n].los_effective >= LosFloor \div 1000

\* C8 witness: a response with a site whose programs' unfloored products are
\* zero and negative, and with a site above the floor
C8_Witness ==
    \E i \in Calls :
        /\ Done(i)
        /\ \E n \in DOMAIN BySite(i) :
             /\ BySite(i)[n].los_effective = LosFloor \div 1000
             /\ \E p, q \in RequestedPrograms :
                  /\ HasBoth(BySite(i)[n].site_id, p) /\ HasBoth(BySite(i)[n].site_id, q)
                  /\ LosBaseOf(<<BySite(i)[n].site_id, p>>) = 0
                  /\ LosBaseOf(<<BySite(i)[n].site_id, q>>) < 0
        /\ \E n \in DOMAIN BySite(i) : BySite(i)[n].los_effective > LosFloor \div 1000

\* the admissions the projection of the engine's arguments gives at growth g
EngineAdmissionsAt(g) ==
    EngineResult(engine, [engine.request EXCEPT !.params.growth_pct = g]).admissions_projected

EngineGrowthCase ==
    /\ engine.pc = "returned" /\ engine.result /= None
    /\ engine.historical_admissions /= <<>>
    /\ engine.request.horizon_years > 0

\* C7 as claimed: with positive baseline admissions and horizon > 0, a larger
\* growth_pct gives strictly more projected admissions.
C7_GrowthStrictlyIncreasing ==
    EngineGrowthCase =>
        \A g \in GrowthChoices :
            g > engine.request.params.growth_pct
                => EngineAdmissionsAt(g) > engine.result.admissions_projected

\* C7 amended: with positive baseline admissions and horizon > 0, a larger
\* growth_pct never gives fewer projected admissions (the truncation can make
\* them equal).
C7_GrowthNonDecreasing ==
    EngineGrowthCase =>
        \A g \in GrowthChoices :
            g > engine.request.params.growth_pct
                => EngineAdmissionsAt(g) >= engine.result.admissions_projected

\* C7 witness: a projection for which one larger growth gives the same
\* admissions and another gives more
C7_Witness ==
    /\ EngineGrowthCase
    /\ \E g, h \in GrowthChoices :
         /\ g > engine.request.params.growth_pct
         /\ h > engine.request.params.growth_pct
         /\ EngineAdmissionsAt(g) = engine.result.admissions_projected
         /\ EngineAdmissionsAt(h) > engine.result.admissions_projected

LookupRows(site_id, program_id) ==
    { r \in db.seasonality_monthly :
        r.site_id = site_id /\ r.program_id = program_id /\ r.month = lookup.month }

\* C10: the multiplier is that of the row of the site and program for the
\* month if there is one, else of the row of the program with a null site, else
\* of the row with null site and program, else 1.0; never a row of a lower
\* tier, of another month, of another site or of another program.
C10_SeasonalityResolutionOrder ==
    lookup.pc = "returned" =>
        LET exact   == LookupRows(lookup.site_id, lookup.program_id)
            program == LookupRows(NullId, lookup.program_id)
            global  == LookupRows(NullId, NullId)
        IN  IF exact /= {} THEN \E r \in exact : lookup.result = r.multiplier
            ELSE IF program /= {} THEN \E r \in program : lookup.result = r.multiplier
            ELSE IF global /= {} THEN \E r \in global : lookup.result = r.multiplier
            ELSE lookup.result = DefaultMultiplier

\* C10 witness: the program row answers while a global row of the month, a
\* row of another site and a row of the same site and program in another
\* month exist
C10_Witness ==
    /\ lookup.pc = "returned"
    /\ LookupRows(lookup.site_id, lookup.program_id) = {}
    /\ LookupRows(NullId, NullId) /= {}
    /\ \E s \in Sites \ {lookup.site_id} : LookupRows(s, lookup.program_id) /= {}
    /\ \E r \in db.seasonality_monthly :
         r.site_id = lookup.site_id /\ r.program_id = lookup.program_id
           /\ r.month /= lookup.month
    /\ \E r \in LookupRows(NullId, lookup.program_id) : lookup.result = r.multiplier

-----------------------------------------------------------------------------
(* C11..C20 *)

\* the site_id values of a list of site results
SiteIds(results) == [n \in DOMAIN results |-> results[n].site_id]

\* C11: the site_id values of by_site are request.sites with the sites
\* without data removed, in the request's order, whatever the order of the
\* fetched rows and of program_ids; while the site loop runs, the results so
\* far are those of the sites already passed, in that order.
C11_BySiteInRequestOrder ==
    \A i \in Calls :
        /\ inv[i].pc = "project" =>
             SiteIds(inv[i].site_results)
               = SelectSeq(SubSeq(request.sites, 1, inv[i].site_index - 1), HasData)
        /\ Done(i) => SiteIds(BySite(i)) = SelectSeq(request.sites, HasData)

\* C11 witness: sites requested in the reverse of the order in which the
\* accessor returns their rows, programs in reverse too, both sites emitted
C11_Witness ==
    \E i \in Calls :
        /\ Done(i)
        /\ request.sites = <<2, 1>> /\ request.program_ids = <<2, 1>>
        /\ SiteIds(inv[i].baselines) = <<1, 2, 1, 2>>
        /\ SiteIds(BySite(i)) = <<2, 1>>

\* annual_hours_per_fte * productivity_factor of a staffing factor is zero
ZeroHours(sf) ==
    sf /= None /\ Get(sf, "annual_hours_per_fte", DefaultAnnualHours)
                    * Get(sf, "productivity_factor", 100) = 0

\* C12: no zero denominator stops the engine.  The projection returns a
\* result with required_beds = 0 when occupancy_target = 0 and with an absent
\* nursing_fte when annual_hours_per_fte * productivity_factor = 0; the
\* response has avg_occupancy = 0 when total_staffed_beds = 0 and
\* avg_los_effective = 0 when total_admissions = 0.
C12_ZeroDenominatorsGuarded ==
    /\ engine.pc = "returned" =>
         /\ engine.result /= None
         /\ engine.request.params.occupancy_target = 0
              => engine.result.required_beds = 0
         /\ ZeroHours(engine.staffing_factor) => engine.result.nursing_fte = None
    /\ \A i \in Calls :
         /\ \A n \in DOMAIN inv[i].per_program_results :
              LET r == inv[i].per_program_results[n]
                  p == { q \in RequestedPrograms :
                           ZeroHours(DictGet(inv[i].staffing_factors, q)) }
              IN  RequestedPrograms \subseteq p => r.nursing_fte = None
         /\ Done(i) =>
              /\ inv[i].response /= None
              /\ KpisOf(i).total_staffed_beds = 0 => KpisOf(i).avg_occupancy = 0
              /\ KpisOf(i).total_admissions = 0 => KpisOf(i).avg_los_effective = 0

\* C12 witness: a direct call with occupancy_target = 0 and a zero
\* productivity_factor has returned, and a response with patient days but
\* no staffed beds has been built from a zero-productivity factor
C12_Witness ==
    /\ engine.pc = "returned"
    /\ engine.request.params.occupancy_target = 0
    /\ ZeroHours(engine.staffing_factor)
    /\ engine.result.patient_days > 0
    /\ \E i \in Calls :
         /\ Done(i) /\ BySite(i) /= <<>>
         /\ \A q \in RequestedPrograms : ZeroHours(DictGet(inv[i].staffing_factors, q))
         /\ KpisOf(i).total_staffed_beds = 0
         /\ inv[i].total_patient_days > 0
         /\ KpisOf(i).total_admissions > 0

\* calculate_scenario has not been entered and no accessor has been read
CoreUntouched ==
    /\ callBudget = 0
    /\ \A i \in DOMAIN inv : inv[i] = IdleLocals

\* C13: a request with an empty site list or an occupancy_target below 0.80
\* is answered with a client error; calculate_scenario is never called for it
\* and no accessor read is issued.
C13_InvalidRequestRejected ==
    api.pc /= "unused"
      /\ (request.sites = <<>> \/ request.params.occupancy_target < 80)
    => /\ CoreUntouched
       /\ api.pc \in {"received", "responded"}
       /\ api.pc = "responded" => api.status \in {BadRequest, Unprocessable}

\* C13 witness: a request with valid parameters and no site has been
\* answered with 400
C13_Witness ==
    /\ api.pc = "responded" /\ api.status = BadRequest
    /\ request.sites = <<>> /\ ValidRequest(request)
    /\ CoreUntouched

\* C14: a request with horizon_years < 0 is answered with a client error;
\* calculate_scenario is never called for it, so the projection never raises
\* (1 + growth_pct) to a negative power.
C14_NegativeHorizonRejected ==
    api.pc /= "unused" /\ request.horizon_years < 0
    => /\ CoreUntouched
       /\ \A i \in DOMAIN inv : inv[i].per_program_results = <<>>
       /\ api.pc = "responded" => api.status \in {BadRequest, Unprocessable}

\* the request and the rows of the worked example: one site, one program,
\* los_base_days 5.8, alc_rate 0.12, 69 staffed beds, hppd 6.5 over 1950 hours
\* at 0.90, 100 historical admissions, occupancy 0.90, los_delta -0.03,
\* alc_target 0.12, growth 0.02, no seasonality, horizon 3
IsExample ==
    /\ request.sites = <<1>> /\ request.program_ids = <<1>>
    /\ request.horizon_years = 3
    /\ request.params = [occupancy_target |-> 90, los_delta |-> -3, alc_target |-> 12,
                         growth_pct |-> 2, schedule_code |-> "Sched-A",
                         seasonality |-> FALSE]
    /\ \E c \in db.clinical_baseline :
         c.site_id = 1 /\ c.program_id = 1 /\ c.los_base_days = 58 /\ c.alc_rate = 12
    /\ \E s \in db.staffed_beds_schedule :
         s.site_id = 1 /\ s.program_id = 1 /\ s.staffed_beds = 69
    /\ \E ip \in db.ip_stays :
         ip.facility_id = 1 /\ ip.program_id = 1 /\ ip.stays = 100
    /\ get_staffing_factor(1)
         = [hppd |-> 65, annual_hours_per_fte |-> 1950, productivity_factor |-> 90]

\* C15: for the worked example calculate_scenario returns one SiteResult with
\* admissions_projected 106, los_effective 5.63, patient_days 596,
\* required_beds 2, staffed_beds 69, capacity_gap -67 and nursing_fte 2.7.
C15_WorkedExample ==
    \A i \in Calls : Done(i) /\ IsExample =>
        /\ Len(BySite(i)) = 1
        /\ BySite(i)[1].site_id = 1
        /\ BySite(i)[1].admissions_projected = 106
        /\ BySite(i)[1].los_effective = 563
        /\ BySite(i)[1].patient_days = 596
        /\ BySite(i)[1].required_beds = 2
        /\ BySite(i)[1].staffed_beds = 69
        /\ BySite(i)[1].capacity_gap = -67
        /\ BySite(i)[1].nursing_fte = Some(27)

\* C15 witness: the response to the worked example has been built
C15_Witness ==
    \E i \in Calls : Done(i) /\ IsExample /\ BySite(i) /= <<>>

\* the operands of the two truncations of the returned projection:
\* baseline * (1 + g) ** y as the fraction num / den, the unrounded
\* los_effective in 1/LosUnit and the seasonality factor in 1/SeasonUnit
EngineOperands ==
    LET req == engine.request
        row == engine.baselines[1]
    IN  [num |-> BaselineAdmissions(engine.historical_admissions, engine.site_id)
                   * Pow(100 + req.params.growth_pct, req.horizon_years),
         den |-> Pow(100, req.horizon_years),
         los |-> Max(LosFloor, row.los_base_days * (100 + req.params.los_delta)
                                 * (100 + (req.params.alc_target - row.alc_rate))),
         season |-> IF req.params.seasonality
                    THEN _get_average_seasonality(engine.site_id, req.program_id)
                    ELSE SeasonUnit]

\* n is the greatest integer <= a * s / (LosUnit * SeasonUnit), for a >= 0 and
\* 0 < s; the comparison is made on a = q * LosUnit + r to stay small
IsFloorOfProduct(n, a, s) ==
    LET q == a \div LosUnit
        r == a % LosUnit
        k == n * SeasonUnit - q * s
    IN  /\ k <= s /\ k + SeasonUnit > 0
        /\ k * LosUnit <= r * s
        /\ r * s < (k + SeasonUnit) * LosUnit

EngineTruncationCase ==
    /\ engine.pc = "returned" /\ engine.result /= None
    /\ engine.request.horizon_years >= 0

\* C16: admissions_projected is the greatest integer <= baseline * (1 + g) ** y
\* and patient_days the greatest integer <= admissions_projected *
\* los_effective * seasonality_factor, with the unrounded floored
\* los_effective: both are truncated, never rounded.
C16_TruncatedNotRounded ==
    EngineTruncationCase =>
        LET o == EngineOperands
            r == engine.result
        IN  /\ r.admissions_projected * o.den <= o.num
            /\ o.num < (r.admissions_projected + 1) * o.den
            /\ IsFloorOfProduct(r.patient_days, r.admissions_projected * o.los, o.season)

\* C16 witness: a projection whose two products have a fractional part of at
\* least one half, and whose patient_days differ from those the 2-decimal
\* los_effective would give
C16_Witness ==
    /\ EngineTruncationCase
    /\ LET o == EngineOperands
           r == engine.result
       IN  /\ 2 * (o.num - r.admissions_projected * o.den) >= o.den
           /\ o.season = SeasonUnit
           /\ 2 * (r.admissions_projected * o.los - r.patient_days * LosUnit) >= LosUnit
           /\ (r.admissions_projected * r.los_effective) \div 100 /= r.patient_days

\* n beds at occupancy occ_t (hundredths) hold the census of patient_days
Holds(n, occ_t, patient_days) == n * occ_t * DaysPerYear >= patient_days * 100

\* C17: for occupancy_target > 0 the required_beds of a projection is the
\* least non-negative integer n with n * occupancy_target >= patient_days / 365,
\* the census taken unrounded, and capacity_gap = required_beds - staffed_beds.
C17_RequiredBedsLeastCover ==
    engine.pc = "returned" /\ engine.result /= None
      /\ engine.request.params.occupancy_target > 0
    => LET r == engine.result
           occ_t == engine.request.params.occupancy_target
       IN  /\ r.required_beds >= 0
           /\ Holds(r.required_beds, occ_t, r.patient_days)
           /\ r.required_beds > 0 => ~Holds(r.required_beds - 1, occ_t, r.patient_days)
           /\ r.capacity_gap = r.required_beds - r.staffed_beds
           /\ r.staffed_beds = engine.staffed_beds[1].staffed_beds

\* C17 witness: a projection needing more beds than the census shown in the
\* result (1 decimal) would give
C17_Witness ==
    /\ engine.pc = "returned" /\ engine.result /= None
    /\ engine.request.params.occupancy_target > 0
    /\ engine.result.required_beds >= 2
    /\ Holds(engine.result.required_beds - 1,
             engine.request.params.occupancy_target * 10,
             engine.result.census_average * DaysPerYear)

\* v is num / den rounded to the nearest multiple of 1 / scale (den > 0)
IsRounded(v, num, den, scale) ==
    2 * Abs(v * den - num * scale) <= den

\* the patient days of the sites of a response
PatientDaysOf(i) == SumSeq([n \in DOMAIN BySite(i) |-> BySite(i)[n].patient_days])

\* the mean of the sites' los_effective, in hundredths, times the site count
SiteLosSum(i) == SumSeq([n \in DOMAIN BySite(i) |-> BySite(i)[n].los_effective])

\* C18: avg_los_effective is the patient days of all emitted sites over
\* total_admissions rounded to 2 decimals, 0 when total_admissions = 0;
\* avg_occupancy is the patient days over total_staffed_beds * 365 rounded to
\* 3 decimals.
C18_AveragesFromTotals ==
    \A i \in Calls : Done(i) =>
        LET k == KpisOf(i)
        IN  /\ IF k.total_admissions = 0 THEN k.avg_los_effective = 0
               ELSE IsRounded(k.avg_los_effective, PatientDaysOf(i),
                              k.total_admissions, 100)
            /\ k.total_staffed_beds > 0 =>
                 IsRounded(k.avg_occupancy, PatientDaysOf(i),
                           k.total_staffed_beds * DaysPerYear, 1000)

\* C18 witness: a response of two sites whose avg_los_effective is not the
\* mean of the sites' los_effective, with a non-zero avg_occupancy
C18_Witness ==
    \E i \in Calls :
        /\ Done(i) /\ Len(BySite(i)) = 2
        /\ ~IsRounded(KpisOf(i).avg_los_effective, SiteLosSum(i), 2 * 100, 100)
        /\ KpisOf(i).avg_occupancy > 0

\* the positions of the requested programs that have both rows for site s
Producing(i, s) ==
    SelectSeq([n \in DOMAIN inv[i].program_ids |-> n],
              LAMBDA n : HasBoth(s, inv[i].program_ids[n]))

\* the per-program results of site s, one per producing requested program
ProgramResultsOf(i, s) ==
    [k \in DOMAIN Producing(i, s) |->
        ProgramResult(inv[i], request, s, inv[i].program_ids[Producing(i, s)[k]])]

\* C19: for every emitted site admissions_projected, patient_days,
\* required_beds and staffed_beds are the sums of the per-program values over
\* exactly the requested programs that have both rows for the site,
\* capacity_gap is required_beds - staffed_beds, and census_average is
\* patient_days / 365 rounded to 1 decimal.
C19_SiteTotalsAreProgramSums ==
    \A i \in Calls : Done(i) =>
        \A n \in DOMAIN BySite(i) :
            LET r  == BySite(i)[n]
                ps == ProgramResultsOf(i, r.site_id)
            IN  /\ \A k \in DOMAIN ps : ps[k] /= None
                /\ r.admissions_projected =
                     SumSeq([k \in DOMAIN ps |-> ps[k].admissions_projected])
                /\ r.patient_days = SumSeq([k \in DOMAIN ps |-> ps[k].patient_days])
                /\ r.required_beds = SumSeq([k \in DOMAIN ps |-> ps[k].required_beds])
                /\ r.staffed_beds = SumSeq([k \in DOMAIN ps |-> ps[k].staffed_beds])
                /\ r.capacity_gap = r.required_beds - r.staffed_beds
                /\ IsRounded(r.census_average, r.patient_days, DaysPerYear, 10)

\* C19 witness: a response with a site summed over two producing programs
\* whose values differ, and a site where a requested program has no rows
C19_Witness ==
    \E i \in Calls : Done(i) /\ \E n, m \in DOMAIN BySite(i) :
        /\ LET ps == ProgramResultsOf(i, BySite(i)[n].site_id)
           IN  /\ Len(ps) = 2
               /\ ps[1].patient_days > 0 /\ ps[2].patient_days > 0
               /\ ps[1].required_beds /= ps[2].required_beds
        /\ Len(ProgramResultsOf(i, BySite(i)[m].site_id)) < Len(inv[i].program_ids)

\* the sum of the per-program los_effective (hundredths), plain and weighted
\* by patient_days
LosSum(ps) == SumSeq([k \in DOMAIN ps |-> ps[k].los_effective])
WeightedLosSum(ps) ==
    SumSeq([k \in DOMAIN ps |-> ps[k].los_effective * ps[k].patient_days])

\* C20: the los_effective of an emitted site is the unweighted mean of the
\* 2-decimal per-program los_effective values of the site, rounded to
\* 2 decimals.
C20_SiteLosIsSimpleMean ==
    \A i \in Calls : Done(i) =>
        \A n \in DOMAIN BySite(i) :
            LET ps == ProgramResultsOf(i, BySite(i)[n].site_id)
            IN  /\ Len(ps) > 0
                /\ IsRounded(BySite(i)[n].los_effective, LosSum(ps), Len(ps), 1)

\* C20 witness: a site of two programs with different los_effective whose
\* value is not the mean weighted by patient days
C20_Witness ==
    \E i \in Calls : Done(i) /\ \E n \in DOMAIN BySite(i) :
        LET ps == ProgramResultsOf(i, BySite(i)[n].site_id)
            r  == BySite(i)[n]
        IN  /\ Len(ps) = 2
            /\ ps[1].los_effective /= ps[2].los_effective
            /\ r.patient_days > 0
            /\ ~IsRounded(r.los_effective, WeightedLosSum(ps), r.patient_days, 1)

-----------------------------------------------------------------------------
(* Construction of ScenarioRequest from the body a client sends *)

\* ensure_program_ids leaving program_ids empty when only program_id is given
ensure_program_ids_ListNotFilled(values) ==
    LET pid  == values.program_id
        pids == values.program_ids
        noPids == pids = None \/ Val(pids) = <<>>
    IN  IF noPids /\ pid = None THEN None
        ELSE IF noPids THEN Some([values EXCEPT !.program_ids = Some(<<>>)])
        ELSE IF ~Truthy(pid)
        THEN Some([values EXCEPT !.program_id = Some(Val(pids)[1])])
        ELSE Some(values)

\* the model validator of ScenarioRequest: None when it raises ValueError,
\* else the values it returns
ensure_program_ids(values) ==
    LET pid  == values.program_id
        pids == values.program_ids
        noPids == pids = None \/ Val(pids) = <<>>
    IN  IF noPids /\ pid = None THEN None
        ELSE IF noPids THEN Some([values EXCEPT !.program_ids = Some(<<Val(pid)>>)])
        ELSE IF ~Truthy(pid)
        THEN Some([values EXCEPT !.program_id = Some(Val(pids)[1])])
        ELSE Some(values)

\* the ScenarioRequest built from validated values
ScenarioRequest(values) ==
    [sites |-> values.sites, program_id |-> Val(values.program_id),
     program_ids |-> Val(values.program_ids),
     baseline_year |-> BaselineYear, horizon_years |-> values.horizon_years,
     params |-> values.params]

\* the program selection of a body: program_id alone, program_ids alone, both
OnlyProgramId(values) == values.program_id /= None /\ values.program_ids = None
OnlyProgramIds(values) ==
    /\ values.program_id = None
    /\ values.program_ids /= None /\ Val(values.program_ids) /= <<>>

\* the other spelling of the same selection
Respelled(values) ==
    IF OnlyProgramId(values)
    THEN [values EXCEPT !.program_id = None,
                        !.program_ids = Some(<<Val(values.program_id)>>)]
    ELSE IF OnlyProgramIds(values) /\ Len(Val(values.program_ids)) = 1
    THEN [values EXCEPT !.program_id = Some(Val(values.program_ids)[1]),
                        !.program_ids = None]
    ELSE IF values.program_ids /= None /\ Val(values.program_ids) = <<>>
    THEN [values EXCEPT !.program_ids = None]
    ELSE [values EXCEPT !.program_id = None]

\* bodies with every spelling of the program selection, over tables that
\* hold rows for all pairs or for the pairs (1, 1) and (2, 2)
InitSchema ==
    /\ \E sites \in ListsUpTo(Sites, MaxSiteList), params \in ParamChoices,
          program_id \in {None} \cup { Some(p) : p \in Programs },
          program_ids \in {None, Some(<<>>)}
                 \cup { Some(l) : l \in ListsUpTo(Programs, MaxProgramList) } :
         api = [pc |-> "body", status |-> 0, sent |-> <<>>, requests |-> <<>>,
                values |-> [sites |-> sites, program_id |-> program_id,
                            program_ids |-> program_ids,
                            horizon_years |-> MaxHorizon, params |-> params]]
    /\ \E bset \in {Pairs, {<<1, 1>>, <<2, 2>>}}, kind \in {"none", "usual"} :
         db = MakeDb(bset, bset, Pairs, [p \in Programs |->
                        IF p = 1 THEN "usual" ELSE kind], SeasonTable)
    /\ request = NoRequest
    /\ callBudget = 0
    /\ inv = [i \in 1..MaxCalls |-> IdleLocals]
    /\ engine = NoEngine
    /\ lookup = NoLookup

\* the body is validated: a rejected body is answered, an accepted one is
\* made the request of the next call of calculate_scenario
Construct ==
    /\ api.pc = "body"
    /\ callBudget < MaxCalls
    /\ LET validated == ensure_program_ids(api.values)
       IN  IF validated = None
           THEN /\ api' = [api EXCEPT !.pc = "rejected", !.status = Unprocessable]
                /\ UNCHANGED <<request, callBudget>>
           ELSE /\ request' = ScenarioRequest(Val(validated))
                /\ callBudget' = callBudget + 1
                /\ api' = [api EXCEPT !.pc = "constructed",
                                      !.sent = Append(@, api.values),
                                      !.requests = Append(@, request')]
    /\ UNCHANGED <<db, inv, engine, lookup>>

\* after the reply the client sends the same selection in its other spelling
Resend ==
    /\ api.pc = "constructed"
    /\ callBudget < MaxCalls
    /\ inv[callBudget].pc = "done"
    /\ api' = [api EXCEPT !.pc = "body", !.values = Respelled(@)]
    /\ UNCHANGED <<db, request, callBudget, inv, engine, lookup>>

NextSchema == Construct \/ Next \/ Resend

SpecSchema == InitSchema /\ [][NextSchema]_vars

-----------------------------------------------------------------------------
(* The same programs requested in another order *)

IsDistinct(s) == \A a, b \in DOMAIN s : s[a] = s[b] => a = b

\* the orderings of the elements of a list without repetitions
Reorderings(s) == { t \in [DOMAIN s -> Range(s)] : Range(t) = Range(s) }

\* requests whose program_ids are distinct
InitPermute ==
    /\ ServiceInputs(1, {Pairs}, PartialSites, UnusualFactorPrograms)
    /\ IsDistinct(request.program_ids)
    /\ engine = NoEngine
    /\ lookup = NoLookup
    /\ api = [pc |-> "sent", requests |-> <<request>>]

\* after the reply the client sends the request again with its program_ids
\* in another order
Permute ==
    /\ api.pc = "sent"
    /\ callBudget < MaxCalls
    /\ inv[callBudget].pc = "done"
    /\ \E program_ids \in Reorderings(request.program_ids) \ {request.program_ids} :
         request' = [request EXCEPT !.program_ids = program_ids,
                                    !.program_id = program_ids[1]]
    /\ callBudget' = callBudget + 1
    /\ api' = [api EXCEPT !.requests = Append(@, request')]
    /\ UNCHANGED <<db, inv, engine, lookup>>

NextPermute == Next \/ Permute

SpecPermute == InitPermute /\ [][NextPermute]_vars

-----------------------------------------------------------------------------
(* The seasonality table changed between two calls *)

\* another filling of seasonality_monthly: a global row per month and a row
\* of site 2 and program 2
OtherSeasonTable ==
    { [site_id |-> NullId, program_id |-> NullId, month |-> m,
       multiplier |-> 110] : m \in Months }
    \cup { [site_id |-> 2, program_id |-> 2, month |-> 6, multiplier |-> 150] }

InitSeason ==
    /\ ServiceInputs(1, {Pairs}, {}, {})
    /\ engine = NoEngine
    /\ lookup = NoLookup
    /\ api = [pc |-> "season", tables |-> <<db.seasonality_monthly>>]

\* after the reply the table is reloaded with other rows and the client
\* sends the request again
Reseason ==
    /\ api.pc = "season"
    /\ callBudget < MaxCalls
    /\ inv[callBudget].pc = "done"
    /\ db' = [db EXCEPT !.seasonality_monthly =
                IF @ = SeasonTable THEN OtherSeasonTable ELSE SeasonTable]
    /\ callBudget' = callBudget + 1
    /\ api' = [api EXCEPT !.tables = Append(@, db'.seasonality_monthly)]
    /\ UNCHANGED <<request, inv, engine, lookup>>

NextSeason == Next \/ Reseason

SpecSeason == InitSeason /\ [][NextSeason]_vars

-----------------------------------------------------------------------------
(* Two invocations on one ScenarioService, interleaved at their awaits *)

Reverse(s) == [n \in DOMAIN s |-> s[Len(s) + 1 - n]]

\* a second request over the same tables: the sites and programs in the
\* reverse order, the other parameters
SecondRequest(req) ==
    [req EXCEPT !.sites = Reverse(@), !.program_ids = Reverse(@),
                !.program_id = req.program_ids[Len(req.program_ids)],
                !.params = CHOOSE p \in ParamChoices : p /= @]

InitConcurrent ==
    /\ \E sites \in ListsUpTo(Sites, MaxSiteList),
          program_ids \in ListsUpTo(Programs, MaxProgramList),
          params \in ParamChoices :
         request = MakeRequest(sites, program_ids, MaxHorizon, params)
    /\ \E bset \in {Pairs, {<<1, 1>>, <<2, 2>>}} :
         db = MakeDb(bset, bset, Pairs, [p \in Programs |->
                        IF p = 1 THEN "usual" ELSE "none"], SeasonTable)
    /\ callBudget = 0
    /\ inv = [i \in 1..MaxCalls |-> IdleLocals]
    /\ engine = NoEngine
    /\ lookup = NoLookup
    /\ api = [pc |-> "concurrent", data |-> db,
              requests |-> <<request, SecondRequest(request)>>]

\* a client sends its request while the other invocation may be suspended
\* at an await
CallConcurrently(i) ==
    /\ i \in DOMAIN api.requests
    /\ api.pc = "concurrent"
    /\ inv[i].pc = "idle"
    /\ inv' = [inv EXCEPT ![i] = EnterLocals(RequestOf(i))]
    /\ UNCHANGED <<db, request, callBudget, engine, lookup, api>>

NextConcurrent ==
    \E i \in 1..MaxCalls : CallConcurrently(i) \/ Fetch(i) \/ Project(i)

SpecConcurrent == InitConcurrent /\ [][NextConcurrent]_vars

-----------------------------------------------------------------------------
(* The saved_scenarios directory: save, save-label and the listing *)

\* uuid4().hex values, and payloads clients save
SaveIds == 1..MaxSaves
Payloads == {"payload-1", "payload-2"}
Labels == {"A", "B", "C"}

\* scenario_{save_id}.json and scenario_label_{label}.json
IdFile(save_id) == [kind |-> "id", name |-> save_id]
LabelFile(label) == [kind |-> "label", name |-> label]

\* the file of a function written with new content, created if missing
WriteFile(files, path, content) ==
    [p \in DOMAIN files \cup {path} |-> IF p = path THEN content ELSE files[p]]

\* save_scenario_endpoint writing every save to one file name
save_scenario_endpoint_OneFile(files, save_id, payload) ==
    WriteFile(files, IdFile(1), [id |-> Some(save_id), payload |-> payload])

\* lines 193-207: the directory after the save
save_scenario_endpoint(files, save_id, payload) ==
    WriteFile(files, IdFile(save_id), [id |-> Some(save_id), payload |-> payload])

\* lines 221-233: the labelled save has a label in place of an id
save_scenario_label(files, label, payload) ==
    WriteFile(files, LabelFile(label), [id |-> None, payload |-> payload])

\* sorted(saves_dir.glob('scenario_*.json')): the id files in the order of
\* their ids, then the label files ('l' sorts after every hex digit)
RECURSIVE SortedIds(_)
SortedIds(S) ==
    IF S = {} THEN <<>>
    ELSE LET m == CHOOSE x \in S : \A y \in S : x <= y
         IN  <<m>> \o SortedIds(S \ {m})

SortedPaths(files) ==
    LET ids    == { p.name : p \in { q \in DOMAIN files : q.kind = "id" } }
        labels == { p \in DOMAIN files : p.kind = "label" }
        idSeq  == SortedIds(ids)
        RECURSIVE InLabelOrder(_)
        InLabelOrder(S) ==
            IF S = {} THEN <<>>
            ELSE LET m == CHOOSE x \in S : \A y \in S :
                            (x.name = "A") \/ (y.name = "C") \/ (x.name = y.name)
                 IN  <<m>> \o InLabelOrder(S \ {m})
    IN  [n \in DOMAIN idSeq |-> IdFile(idSeq[n])] \o InLabelOrder(labels)

\* lines 268-286: the entries of the listing
list_saved_scenarios(files) ==
    LET paths == SortedPaths(files)
    IN  [n \in DOMAIN paths |-> [id |-> files[paths[n]].id,
                                 payload |-> files[paths[n]].payload]]

InitSaves ==
    /\ db = NoDb
    /\ request = NoRequest
    /\ callBudget = 0
    /\ inv = [i \in 1..MaxCalls |-> IdleLocals]
    /\ engine = NoEngine
    /\ lookup = NoLookup
    /\ api = [pc |-> "saves", files |-> <<>>, replied |-> <<>>, posts |-> 0,
              listing |-> <<>>, listed_after |-> <<>>]

\* POST /scenarios/save: uuid4 gives an id no earlier save was given
Save ==
    /\ api.pc = "saves"
    /\ api.posts < MaxSaves
    /\ \E save_id \in SaveIds \ Range(SortedIds({ r.id : r \in Range(api.replied) })),
          payload \in Payloads :
         api' = [api EXCEPT
                   !.files = save_scenario_endpoint(@, save_id, payload),
                   !.replied = Append(@, [id |-> save_id, payload |-> payload]),
                   !.posts = @ + 1]
    /\ UNCHANGED <<db, request, callBudget, inv, engine, lookup>>

\* POST /scenarios/save-label
SaveLabel ==
    /\ api.pc = "saves"
    /\ api.posts < MaxSaves
    /\ \E label \in Labels, payload \in Payloads :
         api' = [api EXCEPT !.files = save_scenario_label(@, label, payload),
                            !.posts = @ + 1]
    /\ UNCHANGED <<db, request, callBudget, inv, engine, lookup>>

\* GET /scenarios/saved
List ==
    /\ api.pc = "saves"
    /\ api' = [api EXCEPT !.listing = list_saved_scenarios(api.files),
                          !.listed_after = api.replied]
    /\ UNCHANGED <<db, request, callBudget, inv, engine, lookup>>

NextSaves == Save \/ SaveLabel \/ List

SpecSaves == InitSaves /\ [][NextSaves]_vars

-----------------------------------------------------------------------------
(* POST /scenarios/compute with an accessor read that raises *)

InitFailure ==
    /\ RequestInputs(ListsUpTo(Sites, MaxSiteList), ParamChoices,
                     {MaxHorizon}, {Pairs}, {}, {})
    /\ callBudget = 0
    /\ inv = [i \in 1..MaxCalls |-> IdleLocals]
    /\ engine = NoEngine
    /\ lookup = NoLookup
    /\ api = [pc |-> "received", status |-> 0, body |-> None,
              failed |-> FALSE, reads_issued |-> 0]

\* one of the four reads of the next program raises
FetchFails ==
    /\ api.pc = "awaiting" /\ ~api.failed
    /\ inv[1].pc = "fetch"
    /\ \E k \in 1..4 :
         /\ inv' = [inv EXCEPT ![1] = RaiseInFetch(inv[1], request, k)]
         /\ api' = [api EXCEPT !.failed = TRUE,
                               !.reads_issued = Len(inv[1].reads) + k + inv[1].season_reads]
    /\ UNCHANGED <<db, request, callBudget, engine, lookup>>

\* a seasonality lookup of the current projection raises
ProjectFails ==
    /\ api.pc = "awaiting" /\ ~api.failed
    /\ inv[1].pc = "project"
    /\ request.params.seasonality
    /\ ProgramResult(inv[1], request, request.sites[inv[1].site_index],
                     inv[1].program_ids[inv[1].program_index]) /= None
    /\ \E month \in Months :
         /\ inv' = [inv EXCEPT ![1] = RaiseInProject(inv[1], month)]
         /\ api' = [api EXCEPT !.failed = TRUE,
                               !.reads_issued = Len(inv[1].reads) + inv[1].season_reads + month]
    /\ UNCHANGED <<db, request, callBudget, engine, lookup>>

\* main.py lines 183-185: the exception becomes the reply
ReplyError ==
    /\ api.pc = "awaiting"
    /\ inv[1].pc = "raised"
    /\ api' = [api EXCEPT !.pc = "responded", !.status = ServerError]
    /\ UNCHANGED <<db, request, callBudget, inv, engine, lookup>>

NextFailure == Receive \/ Next \/ Reply \/ FetchFails \/ ProjectFails \/ ReplyError

SpecFailure == InitFailure /\ [][NextFailure]_vars

-----------------------------------------------------------------------------
(* api/db.py: the module-level pool and the coroutines that query through it *)

Coroutines == 1..MaxCoroutines

IdleCoroutine ==
    [pc |-> "idle", conn |-> None, cursor |-> "none", outcome |-> "none", releases |-> 0]

\* the process after a start with SKIP_DB_INIT=1: _connection_pool is unset
InitPool ==
    /\ db = NoDb
    /\ request = NoRequest
    /\ callBudget = 0
    /\ inv = [i \in 1..MaxCalls |-> IdleLocals]
    /\ engine = NoEngine
    /\ lookup = NoLookup
    /\ api = [pc |-> "pool", _connection_pool |-> None, pools |-> <<>>,
              co |-> [c \in Coroutines |-> IdleCoroutine]]

\* lines 44-45: `if not _connection_pool`, then the await of init_db begins
get_db_connection(c) ==
    /\ api.pc = "pool"
    /\ api.co[c].pc = "idle"
    /\ api' = [api EXCEPT !.co[c].pc =
                 IF api._connection_pool = None THEN "creating" ELSE "acquiring"]
    /\ UNCHANGED <<db, request, callBudget, inv, engine, lookup>>

\* lines 18-29: create_pool returns and the global is assigned
init_db(c) ==
    /\ api.pc = "pool"
    /\ api.co[c].pc = "creating"
    /\ api' = [api EXCEPT
                 !.pools = Append(@, [closed |-> FALSE, used |-> {}]),
                 !._connection_pool = Some(Len(api.pools) + 1),
                 !.co[c].pc = "acquiring"]
    /\ UNCHANGED <<db, request, callBudget, inv, engine, lookup>>

\* line 47: a connection of the pool the global names now
Acquire(c) ==
    /\ api.pc = "pool"
    /\ api.co[c].pc = "acquiring"
    /\ LET p == Val(api._connection_pool)
       IN  api' = [api EXCEPT !.pools[p].used = @ \cup {c},
                              !.co[c].pc = "querying",
                              !.co[c].conn = Some(p)]
    /\ UNCHANGED <<db, request, callBudget, inv, engine, lookup>>

\* lines 57-63, 72-78: the cursor is opened, the query returns or raises, the
\* cursor is closed in the finally
Query(c) ==
    /\ api.pc = "pool"
    /\ api.co[c].pc = "querying"
    /\ \E outcome \in {"returned", "raised"} :
         api' = [api EXCEPT !.co[c].pc = "releasing",
                            !.co[c].cursor = "closed",
                            !.co[c].outcome = outcome]
    /\ UNCHANGED <<db, request, callBudget, inv, engine, lookup>>

\* line 51: release on the pool the global names now; a pool that does not
\* own the connection either refuses it or takes it, and in both cases the
\* pool that owns it still counts it as used
Release(c) ==
    /\ api.pc = "pool"
    /\ api.co[c].pc = "releasing"
    /\ LET p == Val(api._connection_pool)
       IN  IF p = Val(api.co[c].conn)
           THEN api' = [api EXCEPT !.pools[p].used = @ \ {c},
                                   !.co[c].pc = "done",
                                   !.co[c].releases = @ + 1]
           ELSE api' = [api EXCEPT !.co[c].pc = "done"]
    /\ UNCHANGED <<db, request, callBudget, inv, engine, lookup>>

\* lines 32-38, at shutdown: no coroutine is inside get_db_connection
close_db ==
    /\ api.pc = "pool"
    /\ api._connection_pool /= None
    /\ \A c \in Coroutines : api.co[c].pc \in {"idle", "done"}
    /\ api' = [api EXCEPT !.pools[Val(api._connection_pool)].closed = TRUE,
                          !._connection_pool = None]
    /\ UNCHANGED <<db, request, callBudget, inv, engine, lookup>>

NextPool ==
    \/ \E c \in Coroutines :
          get_db_connection(c) \/ init_db(c) \/ Acquire(c) \/ Query(c) \/ Release(c)
    \/ close_db

SpecPool == InitPool /\ [][NextPool]_vars

-----------------------------------------------------------------------------
(* C21..C30 *)

\* C21: a body with only program_id = p is constructed with program_ids = [p];
\* a body with only a non-empty program_ids is constructed with program_id =
\* program_ids[0]; a body with neither, or with an empty program_ids and no
\* program_id, is rejected; calculate_scenario iterates the constructed
\* program_ids, and the two spellings of one program give equal responses.
C21_ProgramSelectionNormalized ==
    /\ \A k \in DOMAIN api.sent :
         LET values == api.sent[k]
             req    == api.requests[k]
         IN  /\ OnlyProgramId(values) =>
                  req.program_ids = <<Val(values.program_id)>>
             /\ OnlyProgramIds(values) =>
                  /\ req.program_id = Val(values.program_ids)[1]
                  /\ req.program_ids = Val(values.program_ids)
             /\ values.program_id /= None
                  \/ (values.program_ids /= None /\ Val(values.program_ids) /= <<>>)
             /\ inv[k].pc /= "idle" => inv[k].program_ids = req.program_ids
    /\ (api.values.program_id = None
          /\ (api.values.program_ids = None \/ Val(api.values.program_ids) = <<>>))
         => api.pc \in {"body", "rejected"} /\ callBudget = 0
    /\ api.pc = "rejected" => api.status = Unprocessable /\ inv[1].pc = "idle"
    /\ \A i, j \in DOMAIN api.sent :
         (/\ Done(i) /\ Done(j)
          /\ OnlyProgramId(api.sent[i])
          /\ OnlyProgramIds(api.sent[j])
          /\ Val(api.sent[j].program_ids) = <<Val(api.sent[i].program_id)>>)
         => inv[i].response = inv[j].response

\* C21 witness: a single-program body and the one-element-list body of the
\* same program were both answered, with a site in by_site
C21_Witness ==
    \E i, j \in DOMAIN api.sent :
        /\ Done(i) /\ Done(j)
        /\ OnlyProgramId(api.sent[i])
        /\ OnlyProgramIds(api.sent[j])
        /\ Val(api.sent[j].program_ids) = <<Val(api.sent[i].program_id)>>
        /\ BySite(i) /= <<>>

\* C22: calls whose requests differ only in the order of their distinct
\* program_ids return the same by_site and the same KPIs.
C22_ProgramOrderIrrelevant ==
    \A i, j \in DOMAIN api.requests :
        (Done(i) /\ Done(j)) =>
            /\ BySite(i) = BySite(j)
            /\ KpisOf(i) = KpisOf(j)

\* C22 witness: two answered calls with program_ids in different orders, with
\* a site aggregated over two programs of different los_effective and
\* patient_days, one of them with nursing FTE
C22_Witness ==
    \E i, j \in DOMAIN api.requests :
        /\ Done(i) /\ Done(j)
        /\ api.requests[i].program_ids /= api.requests[j].program_ids
        /\ \E n \in DOMAIN BySite(i) :
             /\ BySite(i)[n].nursing_fte /= None
             /\ \E p, q \in Range(api.requests[i].program_ids) :
                  /\ p /= q /\ HasBoth(BySite(i)[n].site_id, p)
                  /\ HasBoth(BySite(i)[n].site_id, q)
                  /\ LosBaseOf(<<BySite(i)[n].site_id, p>>)
                       /= LosBaseOf(<<BySite(i)[n].site_id, q>>)

\* the multiplier of a month resolved in a table: the row of the site and
\* program, else the row of the program, else the global row, else 1.0
ResolvedMultiplier(table, s, p, m) ==
    LET rows(a, b) == { r \in table : r.site_id = a /\ r.program_id = b /\ r.month = m }
    IN  IF rows(s, p) /= {} THEN (CHOOSE r \in rows(s, p) : TRUE).multiplier
        ELSE IF rows(NullId, p) /= {} THEN (CHOOSE r \in rows(NullId, p) : TRUE).multiplier
        ELSE IF rows(NullId, NullId) /= {}
        THEN (CHOOSE r \in rows(NullId, NullId) : TRUE).multiplier
        ELSE DefaultMultiplier

\* the sum of the 12 resolved multipliers: the factor in units of 1/SeasonUnit
ResolvedSum(table, s, p) ==
    SumSeq([m \in 1..MonthsPerYear |-> ResolvedMultiplier(table, s, p, m)])

\* the site whose programs call i is projecting, or projected last
CurrentSite(i) == request.sites[inv[i].site_index]

\* the unrounded floored los_effective of a baseline row, in 1/LosUnit
RowLos(s, p) ==
    LET row == CHOOSE c \in db.clinical_baseline :
                 c.site_id = s /\ c.program_id = p
                   /\ c.baseline_year = request.baseline_year
    IN  Max(LosFloor, row.los_base_days * (100 + request.params.los_delta)
                        * (100 + (request.params.alc_target - row.alc_rate)))

\* C23: without params.seasonality the factor is exactly 1.0, no seasonality
\* lookup is made and the response does not depend on the seasonality table;
\* with it the factor of a projection is the sum of the 12 resolved monthly
\* multipliers of its site and program divided by 12.
C23_SeasonalityFactor ==
    \A i \in DOMAIN api.tables :
        /\ ~request.params.seasonality =>
             /\ inv[i].season_reads = 0
             /\ \A j \in DOMAIN api.tables :
                  (Done(i) /\ Done(j)) => inv[i].response = inv[j].response
        /\ inv[i].pc \in {"project", "done"} /\ request.sites /= <<>> =>
             \A k \in DOMAIN inv[i].per_program_results :
                LET s == CurrentSite(i)
                    p == inv[i].program_ids[Producing(i, s)[k]]
                    r == inv[i].per_program_results[k]
                IN  IsFloorOfProduct(r.patient_days,
                        r.admissions_projected * RowLos(s, p),
                        IF request.params.seasonality
                        THEN ResolvedSum(api.tables[i], s, p) ELSE SeasonUnit)

\* C23 witness: two answered calls over different tables; with seasonality
\* the patient days differ and the factor of the last projection is not 1.0
C23_Witness ==
    \E i, j \in DOMAIN api.tables :
        /\ Done(i) /\ Done(j) /\ api.tables[i] /= api.tables[j]
        /\ request.params.seasonality
        /\ inv[i].season_reads >= MonthsPerYear
        /\ BySite(i) /= <<>> /\ BySite(j) /= <<>>
        /\ BySite(i)[1].patient_days /= BySite(j)[1].patient_days
        /\ inv[i].per_program_results /= <<>>
        /\ LET s == CurrentSite(i)
               p == inv[i].program_ids[Producing(i, s)[1]]
           IN  ResolvedSum(api.tables[i], s, p) /= SeasonUnit

\* C23 witness of the other case: two answered calls without seasonality over
\* different tables
C23_WitnessOff ==
    \E i, j \in DOMAIN api.tables :
        /\ Done(i) /\ Done(j) /\ api.tables[i] /= api.tables[j]
        /\ ~request.params.seasonality
        /\ BySite(i) /= <<>> /\ BySite(i)[1].patient_days > 0

\* an invocation run alone from its entry for k resumptions
RECURSIVE AloneAfter(_, _, _)
AloneAfter(L, req, k) ==
    IF k = 0 THEN L
    ELSE AloneAfter(IF L.pc = "fetch" THEN FetchStep(L, req)
                    ELSE IF L.pc = "project" THEN ProjectStep(L, req)
                    ELSE L, req, k - 1)

\* the resumptions invocation i has had
Resumptions(i) ==
    LET L == inv[i]
        n == Len(L.program_ids)
    IN  IF L.pc = "fetch" THEN L.fetched
        ELSE IF L.pc = "project"
        THEN n + (L.site_index - 1) * n + (L.program_index - 1)
        ELSE n + Len(RequestOf(i).sites) * n

C25_SavedStaysListed ==
    /\ \A k \in DOMAIN api.listed_after :
         \E n \in DOMAIN api.listing :
            /\ api.listing[n].id = Some(api.listed_after[k].id)
            /\ api.listing[n].payload = api.listed_after[k].payload
    /\ \A k, l \in DOMAIN api.replied :
         api.replied[k].id = api.replied[l].id => k = l
    /\ \A k \in DOMAIN api.replied :
         /\ IdFile(api.replied[k].id) \in DOMAIN api.files
         /\ api.files[IdFile(api.replied[k].id)].payload = api.replied[k].payload

\* C25 witness: a listing of three entries taken after two saves of
\* different payloads and a labelled save
C25_Witness ==
    /\ Len(api.listed_after) = 2
    /\ api.listed_after[1].payload /= api.listed_after[2].payload
    /\ Len(api.listing) = 3
    /\ Len(api.replied) = 2

\* C26: once an accessor read of a compute request has failed, the
\* invocation builds no response and issues no read beyond the failed one,
\* and the reply, when sent, is a 500 without a body.
C26_ReadFailureIsServerError ==
    api.failed =>
        /\ inv[1].pc = "raised"
        /\ inv[1].response = None
        /\ Len(inv[1].reads) + inv[1].season_reads = api.reads_issued
        /\ api.pc = "responded" => api.status = ServerError /\ api.body = None

\* C26 witness: the reply to a request whose read failed after a program had
\* been fetched, or inside the site loop
C26_Witness ==
    /\ api.failed /\ api.pc = "responded"
    /\ Len(inv[1].reads) > 4
    /\ Len(inv[1].reads) % 4 /= 0

\* C26 witness of a failed seasonality lookup after a site was aggregated
C26_WitnessInLoop ==
    /\ api.failed /\ api.pc = "responded"
    /\ inv[1].season_reads % MonthsPerYear /= 0
    /\ inv[1].site_results /= <<>>

\* the accessors read once per program, in the order of the reads
BatchedAccessors ==
    <<"get_site_program_baseline", "get_site_staffed_beds",
      "get_baseline_admissions", "get_staffing_factor">>

\* C27: a call reads the baseline, the staffed beds, the historical
\* admissions and the staffing factor once per entry of program_ids, the
\* first three with the whole request.sites; no projection is made before
\* the last of these reads, and none of them is made after it, so their
\* number is 4 * len(program_ids) whatever the number of sites.
C27_ReadsBatchedPerProgram ==
    \A i \in Calls :
        LET L == inv[i]
            done == IF L.pc = "fetch" THEN L.fetched ELSE Len(L.program_ids)
        IN  L.pc /= "idle" =>
              /\ Len(L.reads) = Len(BatchedAccessors) * done
              /\ \A n \in 1..done : \A a \in DOMAIN BatchedAccessors :
                   LET r == L.reads[Len(BatchedAccessors) * (n - 1) + a]
                   IN  /\ r.accessor = BatchedAccessors[a]
                       /\ r.program_id = L.program_ids[n]
                       /\ a < Len(BatchedAccessors) => r.sites = request.sites
              /\ L.pc = "fetch" =>
                   /\ L.per_program_results = <<>> /\ L.site_results = <<>>
                   /\ L.site_index = 0

\* C27 witness: a call over two sites and two programs, answered with both
\* sites, made eight reads
C27_Witness ==
    \E i \in Calls :
        /\ Done(i) /\ Len(request.sites) = 2 /\ Len(inv[i].program_ids) = 2
        /\ Len(BySite(i)) = 2
        /\ Len(inv[i].reads) = 8

\* C28: every pool that was created and is not closed is the one the module
\* global names, so at most one pool exists between two close_db calls even
\* when coroutines enter get_db_connection together while the global is unset.
C28_PoolCreatedOnce ==
    \A p \in DOMAIN api.pools :
        api.pools[p].closed \/ api._connection_pool = Some(p)

\* C29: a coroutine that has finished its query has closed its cursor and
\* released its connection exactly once, and when no query is running no
\* pool counts a connection as used.
C29_ConnectionsReleased ==
    /\ \A c \in Coroutines : api.co[c].pc = "done" =>
          api.co[c].cursor = "closed" /\ api.co[c].releases = 1
    /\ (\A c \in Coroutines : api.co[c].pc \in {"idle", "done"}) =>
          \A p \in DOMAIN api.pools : api.pools[p].used = {}

\* field f of the projection of site s and program p
ProgramField(i, s, p, f) == ProgramResult(inv[i], request, s, p)[f]

\* the entries of request.program_ids invocation i has gone through for
\* its current site
Processed(i) ==
    IF inv[i].pc = "project" THEN 1..(inv[i].program_index - 1)
    ELSE DOMAIN request.program_ids

\* C30: by_site has one entry per occurrence in request.sites of a site with
\* data, the entries of one site are identical and every KPI total counts
\* each of them; per_program_results has one result per listed occurrence of
\* a program with rows, the results of one program are identical, and the
\* sums of the site count each of them.
C30_NoDeduplication ==
    \A i \in Calls :
        /\ Done(i) =>
            /\ SiteIds(BySite(i)) = SelectSeq(request.sites, LAMBDA s : HasData(s))
            /\ \A n, m \in DOMAIN BySite(i) :
                 BySite(i)[n].site_id = BySite(i)[m].site_id
                    => BySite(i)[n] = BySite(i)[m]
            /\ KpisOf(i).total_required_beds =
                 SumSeq([n \in DOMAIN BySite(i) |-> BySite(i)[n].required_beds])
            /\ KpisOf(i).total_staffed_beds =
                 SumSeq([n \in DOMAIN BySite(i) |-> BySite(i)[n].staffed_beds])
            /\ KpisOf(i).total_admissions =
                 SumSeq([n \in DOMAIN BySite(i) |-> BySite(i)[n].admissions_projected])
        /\ inv[i].pc \in {"project", "done"} /\ request.sites /= <<>> =>
            LET s    == CurrentSite(i)
                pids == request.program_ids
                ppr  == inv[i].per_program_results
                with == SelectSeq([n \in DOMAIN pids |-> n],
                                  LAMBDA n : n \in Processed(i) /\ HasBoth(s, pids[n]))
            IN  /\ Len(ppr) = Len(with)
                /\ \A k, l \in DOMAIN ppr :
                     pids[with[k]] = pids[with[l]] => ppr[k] = ppr[l]
                /\ Done(i) /\ ppr /= <<>> =>
                     LET r == BySite(i)[Len(BySite(i))]
                     IN  /\ r.site_id = s
                         /\ r.admissions_projected =
                              SumSeq([k \in DOMAIN ppr |-> ppr[k].admissions_projected])
                         /\ r.patient_days =
                              SumSeq([k \in DOMAIN ppr |-> ppr[k].patient_days])
                         /\ r.required_beds =
                              SumSeq([k \in DOMAIN ppr |-> ppr[k].required_beds])
                         /\ r.staffed_beds =
                              SumSeq([k \in DOMAIN ppr |-> ppr[k].staffed_beds])

\* C30 witness: a site and a program both listed twice: two entries, each
\* with twice the patient days and staffed beds of the program
C30_Witness ==
    \E i \in Calls :
        /\ Done(i)
        /\ Len(request.sites) = 2 /\ request.sites[1] = request.sites[2]
        /\ Len(request.program_ids) = 2
        /\ request.program_ids[1] = request.program_ids[2]
        /\ Len(BySite(i)) = 2
        /\ Len(inv[i].per_program_results) = 2
        /\ BySite(i)[1].patient_days > 0
        /\ BySite(i)[1].staffed_beds =
             2 * ProgramField(i, request.sites[1], request.program_ids[1], "staffed_beds")
        /\ KpisOf(i).total_staffed_beds = 2 * BySite(i)[1].staffed_beds

====
